---- MODULE Spec2Model ----
(***************************************************************************)
(* Model of the boiler temperature supervisor (rpi-temp-controll):         *)
(*   - the sensor layer (BaseSensor, DS18B20Sensor, MAX31855Sensor and     *)
(*     SensorManager.read_all),                                            *)
(*   - the Sonoff/Tasmota outlet controller (SonoffController),            *)
(*   - the Tapo outlet controller (TapoController),                        *)
(*   - the decision engine (TemperatureController),                        *)
(*   - the application loop (TemperatureControlApp.run).                   *)
(*                                                                         *)
(* Python's Optional[float] / Optional[datetime] are modelled as           *)
(* sequences of length <= 1: <<>> is None, <<v>> is the value v.           *)
(* Python's Optional[bool] is modelled as one of the strings "True",       *)
(* "False", "None".  Temperatures are whole degrees Celsius, times are     *)
(* whole seconds.                                                          *)
(***************************************************************************)
EXTENDS Integers, Sequences, FiniteSets, TLC

VARIABLES
    enabled,                \* BaseSensor.enabled, per sensor id
    error_count,            \* BaseSensor.error_count, per sensor id
    ip_address,             \* SonoffController.ip_address is configured
    allow_simulation,       \* SonoffController.allow_simulation
    offline_mode,           \* SonoffController.offline_mode
    is_connected,           \* SonoffController.is_connected
    last_status,            \* SonoffController.last_status  ("True"/"False"/"None")
    last_update,            \* SonoffController.last_update  (<<>> or <<t>>)
    simulated_state,        \* SonoffController.simulated_state
    power,                  \* the relay of the physical Tasmota device
    current_outlet_state,   \* TemperatureController.current_outlet_state
    last_outlet_reason,     \* TemperatureController.last_outlet_reason
    last_temperatures,      \* TemperatureController.last_temperatures
    temperature_history,    \* TemperatureController.temperature_history
    now,                    \* the wall clock, datetime.now()
    ticks,                  \* number of operations performed so far
    call_history,           \* what the calls of the outlet controller established so far
    shutdown_event,         \* TemperatureControlApp.shutdown_event is set
    pc,                     \* where TemperatureControlApp.run() stands
    last_outlet_state,      \* the local last_outlet_state of run()
    temperature_readings,   \* rows of the table temperature_readings
    outlet_events,          \* rows of the table outlet_events
    shutdown_calls,         \* how often TemperatureControlApp.shutdown() has run
    sending,                \* the _send_command call in progress, if any
    api_call,               \* the call the API server's thread is in, if any
    test_scenario,          \* ConfigManager.get_test_scenario(), "None" outside test mode
    ret                     \* what the last completed call did and returned

sensorVars == <<enabled, error_count>>
sonoffVars == <<ip_address, allow_simulation, offline_mode, is_connected,
                last_status, last_update, simulated_state, power>>
ctlVars    == <<current_outlet_state, last_outlet_reason, last_temperatures,
                temperature_history>>
appVars    == <<shutdown_event, pc, last_outlet_state, temperature_readings,
                outlet_events, shutdown_calls, sending, api_call,
                test_scenario>>
vars == <<enabled, error_count, ip_address, allow_simulation, offline_mode,
          is_connected, last_status, last_update, simulated_state, power,
          current_outlet_state, last_outlet_reason, last_temperatures,
          temperature_history, now, ticks, call_history, shutdown_event, pc,
          last_outlet_state, temperature_readings, outlet_events,
          shutdown_calls, sending, api_call, test_scenario, ret>>

---------------------------------------------------------------------------
(* Optional values *)

None == <<>>

Some(v) == <<v>>

IsNone(o) == o = <<>>

NotNone(o) == o # <<>>

Val(o) == o[1]

---------------------------------------------------------------------------
(* Bounds of the model *)

\* direct read_temperature calls are explored until error_count reaches this
MaxErrorCount == 4

\* ticks of the control loop in one explored run
MaxTicks == 2

\* calls of the outlet controller in one explored run
MaxCalls == 3

\* samples taken into the trend window in one explored run
MaxSamples == 3

\* the largest configured retry count explored (the code clamps above 10)
MaxConfiguredRetries == 11

---------------------------------------------------------------------------
(* Sensor layer *)

Boiler == "ds18b20_boiler"

AccumulatorBottom == "ds18b20_accumulator_bottom"

AccumulatorTop == "ds18b20_accumulator_top"

Chimney == "max31855_chimney"

\* the sensors SensorManager registers, in registration order
SensorIds == <<Boiler, AccumulatorBottom, AccumulatorTop, Chimney>>

Sensors == {SensorIds[i] : i \in 1..Len(SensorIds)}

\* sensor ids built as "max31855_<key>" are MAX31855Sensor, the rest DS18B20Sensor
IsMax31855(s) == s = Chimney

max_errors == 3

\* upper plausibility limit of MAX31855Sensor.read_temperature
MaxChimneyReading == 300

\* is_available with the threshold off by one
is_available_off_by_one(en, ec) == en /\ ec <= max_errors

is_available(en, ec) == en /\ ec < max_errors

record_error(ec) == ec + 1

reset_errors(ec) == 0

\* DS18B20Sensor.read_temperature: raw is the driver's outcome, None when it raised
DS18B20_read_temperature(en, ec, raw) ==
    IF ~en THEN [value |-> None, error_count |-> ec]
    ELSE IF IsNone(raw) THEN [value |-> None, error_count |-> record_error(ec)]
    ELSE [value |-> raw, error_count |-> reset_errors(ec)]

\* MAX31855Sensor.read_temperature without the validation of lines 157-162
MAX31855_read_temperature_unvalidated(en, ec, raw) ==
    IF ~en THEN [value |-> None, error_count |-> ec]
    ELSE IF IsNone(raw) THEN [value |-> None, error_count |-> record_error(ec)]
    ELSE [value |-> raw, error_count |-> reset_errors(ec)]

\* MAX31855Sensor.read_temperature: raw is None on a thermocouple fault or an exception
MAX31855_read_temperature(en, ec, raw) ==
    IF ~en THEN [value |-> None, error_count |-> ec]
    ELSE IF IsNone(raw) THEN [value |-> None, error_count |-> record_error(ec)]
    ELSE IF Val(raw) > MaxChimneyReading
         THEN [value |-> None, error_count |-> record_error(ec)]
    ELSE [value |-> raw, error_count |-> reset_errors(ec)]

read_temperature(s, en, ec, raw) ==
    IF IsMax31855(s) THEN MAX31855_read_temperature(en, ec, raw)
    ELSE DS18B20_read_temperature(en, ec, raw)

\* a poll that reads the sensor whether or not it is available
read_one_unguarded(s, en, ec, raw) == read_temperature(s, en, ec, raw)

\* one iteration of the loop of SensorManager.read_all, for sensor s
read_one(s, en, ec, raw) ==
    IF is_available(en, ec) THEN read_temperature(s, en, ec, raw)
    ELSE [value |-> None, error_count |-> ec]

\* _initialize_sensors registers the sensors that are enabled in the configuration
Registered(en) == {s \in Sensors : en[s]}

\* a poll that gives up at the first sensor without a reading: the sensors
\* registered after it get None
read_all_fail_fast(en, ec, raws) ==
    LET Blocked(s) ==
            \E i \in 1..Len(SensorIds), j \in 1..Len(SensorIds) :
                /\ SensorIds[j] = s
                /\ i < j
                /\ SensorIds[i] \in Registered(en)
                /\ IsNone(read_one(SensorIds[i], en[SensorIds[i]], ec[SensorIds[i]],
                                   raws[SensorIds[i]]).value)
    IN  [readings    |-> [s \in Registered(en) |->
                            IF Blocked(s) THEN None
                            ELSE read_one(s, en[s], ec[s], raws[s]).value],
         error_count |-> [s \in Sensors |->
                            IF s \in Registered(en) /\ ~Blocked(s)
                            THEN read_one(s, en[s], ec[s], raws[s]).error_count
                            ELSE ec[s]]]

\* SensorManager.read_all: raws maps each sensor to what its device would yield
read_all(en, ec, raws) ==
    [readings    |-> [s \in Registered(en) |-> read_one(s, en[s], ec[s], raws[s]).value],
     error_count |-> [s \in Sensors |->
                        IF s \in Registered(en)
                        THEN read_one(s, en[s], ec[s], raws[s]).error_count
                        ELSE ec[s]]]

---------------------------------------------------------------------------
(* Inputs of the sensor layer *)

\* what the boiler / accumulator probes can yield on one read
Ds18b20Raws == {None, Some(30)}

\* what the chimney thermocouple can yield on one read (310 is an electrical fault)
Max31855Raws == {None, Some(90), Some(248), Some(310)}

RawsOf(s) == IF IsMax31855(s) THEN Max31855Raws ELSE Ds18b20Raws

---------------------------------------------------------------------------
(* Sonoff / Tasmota outlet controller *)

\* default of sonoff.retry_attempts, which __init__ clamps to [1,10]
retry_attempts == 3

\* what one HTTP request of _send_command can end in
AttemptOutcomes == {"ok", "timeout", "connection_error", "http_error", "exception"}

\* a script gives the outcome of every attempt the retry loop could make;
\* after the first outcome that is no timeout and no connection error the
\* device is taken to answer
Scripts ==
    {s \in [1..retry_attempts -> AttemptOutcomes] :
        \A i \in 1..retry_attempts, j \in 1..retry_attempts :
            (i < j /\ s[i] \notin {"timeout", "connection_error"}) => s[j] = "ok"}

\* the fields of a SonoffController object that its methods read and write
SonoffState ==
    [offline_mode    |-> offline_mode,
     is_connected    |-> is_connected,
     last_status     |-> last_status,
     last_update     |-> last_update,
     simulated_state |-> simulated_state]

PyBool(b) == IF b THEN "True" ELSE "False"

\* Python's min and max of two integers
PyMin(a, b) == IF a <= b THEN a ELSE b

PyMax(a, b) == IF a >= b THEN a ELSE b

\* a retry count that is only kept above 1, not below 10
configured_retry_attempts_unbounded(configured) == PyMax(1, configured)

\* self.retry_attempts for a configured sonoff.retry_attempts: max(1, min(10, .))
configured_retry_attempts(configured) == PyMax(1, PyMin(10, configured))

\* a retry loop that also tries again after an HTTP error status
RECURSIVE retry_loop_retries_http(_, _, _, _)
retry_loop_retries_http(n, attempt, sleeps, script) ==
    IF attempt > n
    THEN [end |-> "exhausted", requests |-> n, sleeps |-> sleeps]
    ELSE IF script[attempt] = "ok"
         THEN [end |-> "reply", requests |-> attempt, sleeps |-> sleeps]
    ELSE IF script[attempt] \in {"timeout", "connection_error", "http_error"}
         THEN IF attempt < n
              THEN retry_loop_retries_http(n, attempt + 1, sleeps + 1, script)
              ELSE retry_loop_retries_http(n, attempt + 1, sleeps, script)
    ELSE [end |-> script[attempt], requests |-> attempt, sleeps |-> sleeps]

\* the for loop of _send_command over attempts attempt..n; sleeps counts the
\* time.sleep calls.  A timeout or connection error sleeps and goes on while
\* attempts remain, an HTTP error or any other exception breaks, a good
\* response returns.
RECURSIVE retry_loop(_, _, _, _)
retry_loop(n, attempt, sleeps, script) ==
    IF attempt > n
    THEN [end |-> "exhausted", requests |-> n, sleeps |-> sleeps]
    ELSE IF script[attempt] = "ok"
         THEN [end |-> "reply", requests |-> attempt, sleeps |-> sleeps]
    ELSE IF script[attempt] \in {"timeout", "connection_error"}
         THEN IF attempt < n
              THEN retry_loop(n, attempt + 1, sleeps + 1, script)
              ELSE retry_loop(n, attempt + 1, sleeps, script)
    ELSE [end |-> script[attempt], requests |-> attempt, sleeps |-> sleeps]

\* the loop with the default retry_attempts
send_loop(attempt, sleeps, script) ==
    retry_loop(retry_attempts, attempt, sleeps, script)

\* SonoffController._send_command: replied says whether a JSON reply came back
_send_command(sc, script) ==
    IF sc.offline_mode
    THEN [replied |-> FALSE, end |-> "offline", requests |-> 0, sleeps |-> 0]
    ELSE LET r == send_loop(1, 0, script)
         IN  [replied |-> r.end = "reply", end |-> r.end,
              requests |-> r.requests, sleeps |-> r.sleeps]

\* The Tasmota device: a request that got through ("ok") is carried out.  A
\* request that ended in a timeout, a connection error or an HTTP error status
\* did not change the relay.
DeviceAfter(command, pw, sent) ==
    IF ~sent.replied THEN pw
    ELSE IF command = "Power On" THEN TRUE
    ELSE IF command = "Power Off" THEN FALSE
    ELSE IF command = "Power Toggle" THEN ~pw
    ELSE pw

\* result.get("POWER", "").upper() of the reply: the relay's word, or something
\* else ("") when the reply is garbled or has no POWER key
PowerWord(pw, garbled) == IF garbled THEN "" ELSE IF pw THEN "ON" ELSE "OFF"

\* what a controller method leaves behind: the object's fields, the relay,
\* the value returned and what the request did
Outcome(sc, pw, result, sent) ==
    [sc |-> sc, power |-> pw, result |-> result, requests |-> sent.requests,
     sleeps |-> sent.sleeps, end |-> sent.end]

NotSent == [replied |-> FALSE, end |-> "offline", requests |-> 0, sleeps |-> 0]

\* a turn_on that on failure also discards the cached status
turn_on_live_forgetting(sc, allow, pw2, sent, garbled, t) ==
    IF sent.replied
    THEN IF PowerWord(pw2, garbled) = "ON"
         THEN Outcome([sc EXCEPT !.last_status = "True", !.last_update = Some(t),
                                 !.is_connected = TRUE], pw2, TRUE, sent)
         ELSE Outcome([sc EXCEPT !.last_status = "True", !.last_update = Some(t)],
                      pw2, TRUE, sent)
    ELSE IF allow
         THEN Outcome([sc EXCEPT !.is_connected = FALSE, !.offline_mode = TRUE,
                                 !.simulated_state = TRUE, !.last_status = "True",
                                 !.last_update = Some(t)], pw2, TRUE, sent)
         ELSE Outcome([sc EXCEPT !.is_connected = FALSE, !.last_status = "None"],
                      pw2, FALSE, sent)

\* turn_on once _send_command("Power On") has returned sent (lines 187-220)
turn_on_live(sc, allow, pw2, sent, garbled, t) ==
    IF sent.replied
    THEN IF PowerWord(pw2, garbled) = "ON"
         THEN Outcome([sc EXCEPT !.last_status = "True", !.last_update = Some(t),
                                 !.is_connected = TRUE], pw2, TRUE, sent)
         ELSE Outcome([sc EXCEPT !.last_status = "True", !.last_update = Some(t)],
                      pw2, TRUE, sent)
    ELSE IF allow
         THEN Outcome([sc EXCEPT !.is_connected = FALSE, !.offline_mode = TRUE,
                                 !.simulated_state = TRUE, !.last_status = "True",
                                 !.last_update = Some(t)], pw2, TRUE, sent)
         ELSE Outcome([sc EXCEPT !.is_connected = FALSE], pw2, FALSE, sent)

\* the request of a live method: what _send_command returned and the relay after it
Request(command, sc, pw, script) ==
    [sent  |-> _send_command(sc, script),
     power |-> DeviceAfter(command, pw, _send_command(sc, script))]

\* SonoffController.turn_on
turn_on(sc, allow, pw, script, garbled, t) ==
    IF sc.offline_mode
    THEN IF allow
         THEN Outcome([sc EXCEPT !.simulated_state = TRUE, !.last_status = "True",
                                 !.last_update = Some(t)], pw, TRUE, NotSent)
         ELSE Outcome(sc, pw, FALSE, NotSent)
    ELSE turn_on_live(sc, allow, Request("Power On", sc, pw, script).power,
                      Request("Power On", sc, pw, script).sent, garbled, t)

\* a turn_off that takes a reply without the OFF word for a failure
turn_off_live_strict(sc, allow, pw2, sent, garbled, t) ==
    IF sent.replied
    THEN IF PowerWord(pw2, garbled) = "OFF"
         THEN Outcome([sc EXCEPT !.last_status = "False", !.last_update = Some(t),
                                 !.is_connected = TRUE], pw2, TRUE, sent)
         ELSE Outcome(sc, pw2, FALSE, sent)
    ELSE IF allow
         THEN Outcome([sc EXCEPT !.is_connected = FALSE, !.offline_mode = TRUE,
                                 !.simulated_state = FALSE, !.last_status = "False",
                                 !.last_update = Some(t)], pw2, TRUE, sent)
         ELSE Outcome([sc EXCEPT !.is_connected = FALSE], pw2, FALSE, sent)

\* turn_off once _send_command("Power Off") has returned sent (lines 242-275)
turn_off_live(sc, allow, pw2, sent, garbled, t) ==
    IF sent.replied
    THEN IF PowerWord(pw2, garbled) = "OFF"
         THEN Outcome([sc EXCEPT !.last_status = "False", !.last_update = Some(t),
                                 !.is_connected = TRUE], pw2, TRUE, sent)
         ELSE Outcome([sc EXCEPT !.last_status = "False", !.last_update = Some(t)],
                      pw2, TRUE, sent)
    ELSE IF allow
         THEN Outcome([sc EXCEPT !.is_connected = FALSE, !.offline_mode = TRUE,
                                 !.simulated_state = FALSE, !.last_status = "False",
                                 !.last_update = Some(t)], pw2, TRUE, sent)
         ELSE Outcome([sc EXCEPT !.is_connected = FALSE], pw2, FALSE, sent)

\* SonoffController.turn_off
turn_off(sc, allow, pw, script, garbled, t) ==
    IF sc.offline_mode
    THEN IF allow
         THEN Outcome([sc EXCEPT !.simulated_state = FALSE, !.last_status = "False",
                                 !.last_update = Some(t)], pw, TRUE, NotSent)
         ELSE Outcome(sc, pw, FALSE, NotSent)
    ELSE turn_off_live(sc, allow, Request("Power Off", sc, pw, script).power,
                       Request("Power Off", sc, pw, script).sent, garbled, t)

\* get_status falling back to the cached state although simulation is not allowed
get_status_live_cached(sc, allow, pw2, sent, word, t) ==
    IF sent.replied
    THEN IF word \in {"ON", "OFF"}
         THEN Outcome([sc EXCEPT !.last_status = PyBool(word = "ON"),
                                 !.last_update = Some(t), !.is_connected = TRUE],
                      pw2, PyBool(word = "ON"), sent)
         ELSE Outcome(sc, pw2, sc.last_status, sent)
    ELSE Outcome([sc EXCEPT !.is_connected = FALSE], pw2, sc.last_status, sent)

\* get_status once _send_command("Power") has returned sent (lines 292-319);
\* the value returned is "True", "False" or "None"
get_status_live(sc, allow, pw2, sent, word, t) ==
    IF sent.replied
    THEN IF word \in {"ON", "OFF"}
         THEN Outcome([sc EXCEPT !.last_status = PyBool(word = "ON"),
                                 !.last_update = Some(t), !.is_connected = TRUE],
                      pw2, PyBool(word = "ON"), sent)
         ELSE Outcome(sc, pw2, sc.last_status, sent)
    ELSE IF allow
         THEN Outcome([sc EXCEPT !.is_connected = FALSE, !.offline_mode = TRUE], pw2,
                      IF sc.last_status # "None" THEN sc.last_status
                      ELSE PyBool(sc.simulated_state), sent)
         ELSE Outcome([sc EXCEPT !.is_connected = FALSE], pw2, "None", sent)

\* SonoffController.get_status
get_status(sc, allow, pw, script, garbled, t) ==
    IF sc.offline_mode
    THEN IF allow
         THEN Outcome(sc, pw, PyBool(sc.simulated_state), NotSent)
         ELSE Outcome(sc, pw, "None", NotSent)
    ELSE get_status_live(sc, allow, pw, _send_command(sc, script),
                         PowerWord(pw, garbled), t)

\* toggle once _send_command("Power Toggle") has returned sent (lines 357-386)
toggle_live(sc, allow, pw2, sent, word, t) ==
    IF sent.replied
    THEN IF word \in {"ON", "OFF"}
         THEN Outcome([sc EXCEPT !.last_status = PyBool(word = "ON"),
                                 !.last_update = Some(t), !.is_connected = TRUE],
                      pw2, TRUE, sent)
         ELSE Outcome(sc, pw2, TRUE, sent)
    ELSE IF allow
         THEN Outcome([sc EXCEPT !.is_connected = FALSE, !.offline_mode = TRUE,
                                 !.simulated_state = ~sc.simulated_state,
                                 !.last_status = PyBool(~sc.simulated_state),
                                 !.last_update = Some(t)], pw2, TRUE, sent)
         ELSE Outcome([sc EXCEPT !.is_connected = FALSE], pw2, FALSE, sent)

\* a toggle that in simulated mode switches on instead of inverting
toggle_simulated_sets_on(sc, allow, pw, script, garbled, t) ==
    IF sc.offline_mode
    THEN IF allow
         THEN Outcome([sc EXCEPT !.simulated_state = TRUE,
                                 !.last_status = "True",
                                 !.last_update = Some(t)], pw, TRUE, NotSent)
         ELSE Outcome(sc, pw, FALSE, NotSent)
    ELSE toggle_live(sc, allow, Request("Power Toggle", sc, pw, script).power,
                     Request("Power Toggle", sc, pw, script).sent,
                     PowerWord(Request("Power Toggle", sc, pw, script).power, garbled),
                     t)

\* SonoffController.toggle
toggle(sc, allow, pw, script, garbled, t) ==
    IF sc.offline_mode
    THEN IF allow
         THEN Outcome([sc EXCEPT !.simulated_state = ~sc.simulated_state,
                                 !.last_status = PyBool(~sc.simulated_state),
                                 !.last_update = Some(t)], pw, TRUE, NotSent)
         ELSE Outcome(sc, pw, FALSE, NotSent)
    ELSE toggle_live(sc, allow, Request("Power Toggle", sc, pw, script).power,
                     Request("Power Toggle", sc, pw, script).sent,
                     PowerWord(Request("Power Toggle", sc, pw, script).power, garbled),
                     t)

\* connect once _send_command("Status") has returned sent (lines 142-157)
connect_live(sc, pw, sent) ==
    IF sent.replied
    THEN Outcome([sc EXCEPT !.is_connected = TRUE, !.offline_mode = FALSE],
                 pw, TRUE, sent)
    ELSE Outcome([sc EXCEPT !.is_connected = FALSE, !.offline_mode = TRUE],
                 pw, FALSE, sent)

\* SonoffController.connect (the address check of line 137 cannot fail: without
\* an address the constructor has already set offline_mode)
connect(sc, pw, script) ==
    IF sc.offline_mode THEN Outcome(sc, pw, FALSE, NotSent)
    ELSE connect_live(sc, pw, _send_command(sc, script))

\* the calls that change the relay
Commands == {"turn_on", "turn_off", "toggle"}

\* before any call: no command has succeeded, no reply has stated the relay
NoCalls == [commanded |-> "None", confirmed |-> "None"]

\* the state a successful command asked for: on, off, or for a toggle the
\* opposite of what the relay (live) or the simulated state (offline) was
Commanded(op, end, pw, sim) ==
    IF op = "turn_on" THEN "True"
    ELSE IF op = "turn_off" THEN "False"
    ELSE IF end = "reply" THEN PyBool(pw)
    ELSE PyBool(sim)

\* call_history after a call op that returned result and ended in end, with pw
\* the relay and sim the simulated state after it: commanded is the state
\* asked for by the last command that returned True, confirmed is the state
\* given by the last reply with an ON/OFF power word (connect's "Status"
\* reply is not inspected for one)
Recorded(h, op, result, end, pw, sim, garbled) ==
    [commanded |-> IF op \in Commands /\ result = TRUE
                   THEN Commanded(op, end, pw, sim) ELSE h.commanded,
     confirmed |-> IF op # "connect" /\ end = "reply" /\ ~garbled
                   THEN PyBool(pw) ELSE h.confirmed]

---------------------------------------------------------------------------
(* Tapo outlet controller *)

\* the fields of a TapoController object that its methods read and write; the
\* class keeps them under the names SonoffController uses
TapoState == SonoffState

\* what a TapoController method leaves behind: the object's fields, the relay,
\* the value returned and whether the device answered the call
TapoOutcome(sc, pw, result, reached) ==
    [sc |-> sc, power |-> pw, result |-> result, reached |-> reached]

\* TapoController._connect_async; configured: the tapo library, the address
\* and the credentials are all present; link: the device accepts the login
_connect_async(sc, configured, link) ==
    IF ~configured
    THEN [sc |-> [sc EXCEPT !.offline_mode = TRUE], result |-> FALSE]
    ELSE IF link
         THEN [sc |-> [sc EXCEPT !.is_connected = TRUE, !.offline_mode = FALSE],
               result |-> TRUE]
         ELSE [sc |-> [sc EXCEPT !.is_connected = FALSE, !.offline_mode = TRUE],
               result |-> FALSE]

\* lines 129-130, 173-174, 217-218: connect first when not connected
connected_first(sc, configured, link) ==
    IF sc.is_connected THEN [sc |-> sc, result |-> TRUE]
    ELSE _connect_async(sc, configured, link)

\* TapoController.connect
Tapo_connect(sc, pw, configured, link) ==
    TapoOutcome(_connect_async(sc, configured, link).sc, pw,
                _connect_async(sc, configured, link).result,
                configured /\ link)

\* TapoController._turn_on_async once the connection attempt has returned c;
\* answers: device.on() returns instead of raising
turn_on_connected(c, pw, answers, t) ==
    IF ~c.result
    THEN IF c.sc.offline_mode
         THEN TapoOutcome([c.sc EXCEPT !.simulated_state = TRUE,
                                       !.last_status = "True",
                                       !.last_update = Some(t)], pw, TRUE, FALSE)
         ELSE TapoOutcome(c.sc, pw, FALSE, FALSE)
    ELSE IF answers
         THEN TapoOutcome([c.sc EXCEPT !.last_status = "True",
                                       !.last_update = Some(t)], TRUE, TRUE, TRUE)
         ELSE TapoOutcome([c.sc EXCEPT !.is_connected = FALSE,
                                       !.offline_mode = TRUE,
                                       !.simulated_state = TRUE,
                                       !.last_status = "True",
                                       !.last_update = Some(t)], pw, TRUE, FALSE)

\* TapoController.turn_on
Tapo_turn_on(sc, pw, configured, link, answers, t) ==
    turn_on_connected(connected_first(sc, configured, link), pw, answers, t)

\* TapoController._turn_off_async once the connection attempt has returned c
turn_off_connected(c, pw, answers, t) ==
    IF ~c.result
    THEN IF c.sc.offline_mode
         THEN TapoOutcome([c.sc EXCEPT !.simulated_state = FALSE,
                                       !.last_status = "False",
                                       !.last_update = Some(t)], pw, TRUE, FALSE)
         ELSE TapoOutcome(c.sc, pw, FALSE, FALSE)
    ELSE IF answers
         THEN TapoOutcome([c.sc EXCEPT !.last_status = "False",
                                       !.last_update = Some(t)], FALSE, TRUE, TRUE)
         ELSE TapoOutcome([c.sc EXCEPT !.is_connected = FALSE,
                                       !.offline_mode = TRUE,
                                       !.simulated_state = FALSE,
                                       !.last_status = "False",
                                       !.last_update = Some(t)], pw, TRUE, FALSE)

\* TapoController.turn_off
Tapo_turn_off(sc, pw, configured, link, answers, t) ==
    turn_off_connected(connected_first(sc, configured, link), pw, answers, t)

\* TapoController._get_status_async once the connection attempt has returned
\* c; the value returned is "True", "False" or "None"
get_status_connected(c, pw, answers, t) ==
    IF ~c.result
    THEN IF c.sc.offline_mode
         THEN TapoOutcome(c.sc, pw, PyBool(c.sc.simulated_state), FALSE)
         ELSE TapoOutcome(c.sc, pw, "None", FALSE)
    ELSE IF answers
         THEN TapoOutcome([c.sc EXCEPT !.last_status = PyBool(pw),
                                       !.last_update = Some(t)],
                          pw, PyBool(pw), TRUE)
         ELSE TapoOutcome([c.sc EXCEPT !.is_connected = FALSE,
                                       !.offline_mode = TRUE], pw,
                          IF c.sc.last_status # "None" THEN c.sc.last_status
                          ELSE PyBool(c.sc.simulated_state), FALSE)

\* TapoController.get_status
Tapo_get_status(sc, pw, configured, link, answers, t) ==
    get_status_connected(connected_first(sc, configured, link), pw, answers, t)

---------------------------------------------------------------------------
(* Decision engine: TemperatureController *)

\* defaults of the control section of the configuration
boiler_critical_temp == 85

accumulator_critical_temp == 80

boiler_safe_temp == 70

accumulator_safe_temp == 65

chimney_critical_temp == 250

chimney_low_temp == 100

hysteresis == 3

\* seconds
startup_detection_period == 120

startup_temp_increase == 5

\* deque(maxlen=100)
HistoryMaxLen == 100

\* default of control.check_interval, seconds between two ticks
check_interval == 30

\* sensor ids with 'boiler' / 'chimney' / 'accumulator_bottom' / 'accumulator_top' in them
HasBoiler(s) == s = Boiler

HasChimney(s) == s = Chimney

HasAccumulatorBottom(s) == s = AccumulatorBottom

HasAccumulatorTop(s) == s = AccumulatorTop

\* last_temperatures right after construction: the empty dict
EmptyDict == [s \in {} |-> None]

\* the value of the first key of the dict that is one of ids, None when the
\* dict has no such key
Lookup(temps, ids) ==
    IF ids \cap DOMAIN temps = {}
    THEN None
    ELSE temps[CHOOSE s \in ids \cap DOMAIN temps : TRUE]

get_boiler_temp(temps) == Lookup(temps, {s \in Sensors : HasBoiler(s)})

get_chimney_temp(temps) == Lookup(temps, {s \in Sensors : HasChimney(s)})

\* get_accumulator_temps: [bottom, top]
get_accumulator_temps(temps) ==
    [bottom |-> Lookup(temps, {s \in Sensors : HasAccumulatorBottom(s)}),
     top    |-> Lookup(temps, {s \in Sensors : HasAccumulatorTop(s)})]

\* max(t for t in [bottom, top] if t is not None), None when both are None
max_accumulator_temp(temps) ==
    LET a == get_accumulator_temps(temps)
    IN  IF IsNone(a.bottom) /\ IsNone(a.top) THEN None
        ELSE IF IsNone(a.bottom) THEN a.top
        ELSE IF IsNone(a.top) THEN a.bottom
        ELSE IF Val(a.bottom) >= Val(a.top) THEN a.bottom ELSE a.top

\* deque.append with maxlen: a full window drops its oldest sample
Append100(hist, sample) ==
    IF Len(hist) >= HistoryMaxLen THEN Append(Tail(hist), sample)
    ELSE Append(hist, sample)

\* get_temperatures, after read_all: the new last_temperatures and history
get_temperatures(readings, hist, t) ==
    [last_temperatures   |-> readings,
     temperature_history |->
        Append100(hist, [t       |-> t,
                         boiler  |-> Lookup(readings, {s \in Sensors : HasBoiler(s)}),
                         chimney |-> Lookup(readings, {s \in Sensors : HasChimney(s)})])]

\* an increase that must exceed startup_temp_increase instead of reaching it
increasing_strict(first, last) ==
    /\ NotNone(first)
    /\ NotNone(last)
    /\ Val(last) - Val(first) > startup_temp_increase

\* lines 95-101: both endpoints present and the rise at least startup_temp_increase
increasing(first, last) ==
    /\ NotNone(first)
    /\ NotNone(last)
    /\ Val(last) - Val(first) >= startup_temp_increase

\* a trend taken over the whole window, whatever the age of its samples
recent_readings_whole_window(hist, t) == hist

\* lines 72-77: the samples of the window not older than startup_detection_period
recent_readings(hist, t) ==
    LET InPeriod(reading) == (t - reading.t) <= startup_detection_period
    IN  SelectSeq(hist, InPeriod)

\* lines 79-106, on the recent samples
startup_verdict(recent) ==
    IF Len(recent) < 2 THEN FALSE
    ELSE /\ increasing(recent[1].boiler, recent[Len(recent)].boiler)
         /\ increasing(recent[1].chimney, recent[Len(recent)].chimney)

\* is_startup_period, evaluated at time t
is_startup_period(hist, t) ==
    IF Len(hist) < 2 THEN FALSE
    ELSE startup_verdict(recent_readings(hist, t))

\* should_turn_on: [on, reason]
should_turn_on(temps, hist, t) ==
    LET boiler_temp  == get_boiler_temp(temps)
        max_acc      == max_accumulator_temp(temps)
        chimney_temp == get_chimney_temp(temps)
    IN  IF is_startup_period(hist, t)
        THEN [on |-> TRUE, reason |-> "startup"]
        ELSE IF NotNone(chimney_temp)
                /\ Val(chimney_temp) >= chimney_critical_temp - hysteresis
        THEN [on |-> TRUE, reason |-> "chimney_critical"]
        ELSE IF NotNone(boiler_temp)
                /\ Val(boiler_temp) >= boiler_critical_temp - hysteresis
        THEN [on |-> TRUE, reason |-> "boiler_critical"]
        ELSE IF NotNone(max_acc)
                /\ Val(max_acc) >= accumulator_critical_temp - hysteresis
        THEN [on |-> TRUE, reason |-> "accumulator_critical"]
        ELSE [on |-> FALSE, reason |-> "None"]

\* should_turn_off comparing the boiler with <= instead of <
should_turn_off_le(temps) ==
    LET boiler_temp  == get_boiler_temp(temps)
        max_acc      == max_accumulator_temp(temps)
        chimney_temp == get_chimney_temp(temps)
        boiler_safe  == IsNone(boiler_temp)
                        \/ Val(boiler_temp) <= boiler_safe_temp + hysteresis
        accumulator_safe == IsNone(max_acc)
                        \/ Val(max_acc) < accumulator_safe_temp + hysteresis
        chimney_low  == IsNone(chimney_temp)
                        \/ Val(chimney_temp) < chimney_low_temp
    IN  IF NotNone(chimney_temp)
           /\ Val(chimney_temp) >= chimney_critical_temp - hysteresis
        THEN [off |-> FALSE, reason |-> "None"]
        ELSE IF boiler_safe /\ accumulator_safe /\ chimney_low
        THEN [off |-> TRUE, reason |-> "safe_temperatures"]
        ELSE [off |-> FALSE, reason |-> "None"]

\* should_turn_off: [off, reason]
should_turn_off(temps) ==
    LET boiler_temp  == get_boiler_temp(temps)
        max_acc      == max_accumulator_temp(temps)
        chimney_temp == get_chimney_temp(temps)
        boiler_safe  == IsNone(boiler_temp)
                        \/ Val(boiler_temp) < boiler_safe_temp + hysteresis
        accumulator_safe == IsNone(max_acc)
                        \/ Val(max_acc) < accumulator_safe_temp + hysteresis
        chimney_low  == IsNone(chimney_temp)
                        \/ Val(chimney_temp) < chimney_low_temp
    IN  IF NotNone(chimney_temp)
           /\ Val(chimney_temp) >= chimney_critical_temp - hysteresis
        THEN [off |-> FALSE, reason |-> "None"]
        ELSE IF boiler_safe /\ accumulator_safe /\ chimney_low
        THEN [off |-> TRUE, reason |-> "safe_temperatures"]
        ELSE [off |-> FALSE, reason |-> "None"]

\* update_control switching on only when the status is False, not when it is None
control_branch_known_only(should_on, should_off, current_state) ==
    IF should_on /\ current_state = "False"
    THEN "turn_on"
    ELSE IF should_off /\ current_state = "True"
    THEN "turn_off"
    ELSE "none"

\* update_control sending turn_on whatever the status is
control_branch_no_debounce(should_on, should_off, current_state) ==
    IF should_on
    THEN "turn_on"
    ELSE IF should_off /\ current_state = "True"
    THEN "turn_off"
    ELSE "none"

\* update_control switching off unless the status is False
control_branch_off_unknown(should_on, should_off, current_state) ==
    IF should_on /\ (current_state = "False" \/ current_state = "None")
    THEN "turn_on"
    ELSE IF should_off /\ current_state # "False"
    THEN "turn_off"
    ELSE "none"

\* the branch update_control takes: which command it sends for the given
\* verdicts and the status get_status returned
control_branch(should_on, should_off, current_state) ==
    IF should_on /\ (current_state = "False" \/ current_state = "None")
    THEN "turn_on"
    ELSE IF should_off /\ current_state = "True"
    THEN "turn_off"
    ELSE "none"

\* the command of the branch taken (lines 260 and 268), or no call at all
issue_command(branch, status, allow, script, garbled, t) ==
    IF branch = "turn_on"
    THEN turn_on(status.sc, allow, status.power, script, garbled, t)
    ELSE IF branch = "turn_off"
    THEN turn_off(status.sc, allow, status.power, script, garbled, t)
    ELSE Outcome(status.sc, status.power, FALSE, NotSent)

\* lines 258-275: the fields written and the reason returned, given the
\* verdicts on and off, the branch taken and the outcome cmd of its command
control_result(polled, got, status, on, off, branch, cmd, cos, lor) ==
    [error_count          |-> polled.error_count,
     last_temperatures    |-> got.last_temperatures,
     temperature_history  |-> got.temperature_history,
     sc                   |-> cmd.sc,
     power                |-> cmd.power,
     current_outlet_state |-> IF branch # "none" /\ cmd.result
                              THEN PyBool(branch = "turn_on") ELSE cos,
     last_outlet_reason   |-> IF ~(branch # "none" /\ cmd.result) THEN lor
                              ELSE IF branch = "turn_on" THEN on.reason
                              ELSE off.reason,
     result               |-> IF ~(branch # "none" /\ cmd.result) THEN "None"
                              ELSE IF branch = "turn_on" THEN on.reason
                              ELSE off.reason,
     status               |-> status.result,
     status_end           |-> status.end,
     command              |-> branch,
     command_result       |-> cmd.result,
     command_end          |-> cmd.end,
     should_on            |-> on.on,
     reason_on            |-> on.reason,
     should_off           |-> off.off]

\* lines 257-268: choose the branch and send its command
control_decided(polled, got, status, on, off, branch, allow, cos, lor, s2, g2, t) ==
    control_result(polled, got, status, on, off, branch,
                   issue_command(branch, status, allow, s2, g2, t), cos, lor)

\* lines 253-255: should_turn_on and should_turn_off on the fresh readings
control_status(polled, got, status, allow, cos, lor, s2, g2, t) ==
    control_decided(polled, got, status,
                    should_turn_on(got.last_temperatures, got.temperature_history, t),
                    should_turn_off(got.last_temperatures),
                    control_branch(
                        should_turn_on(got.last_temperatures,
                                       got.temperature_history, t).on,
                        should_turn_off(got.last_temperatures).off,
                        status.result),
                    allow, cos, lor, s2, g2, t)

\* lines 238 and 251: get_temperatures, then get_status
control_polled(polled, sc, allow, pw, hist, cos, lor, s1, g1, s2, g2, t) ==
    control_status(polled, get_temperatures(polled.readings, hist, t),
                   get_status(sc, allow, pw, s1, g1, t), allow, cos, lor, s2, g2, t)

\* update_control with an outlet controller configured.  raws: what each probe
\* yields; s1, g1: the network during get_status; s2, g2: during the command.
update_control(en, ec, sc, allow, pw, hist, cos, lor, raws, s1, g1, s2, g2, t) ==
    control_polled(read_all(en, ec, raws), sc, allow, pw, hist, cos, lor,
                   s1, g1, s2, g2, t)

\* an update_control that without an outlet controller records the state it
\* would have commanded
update_control_without_outlet_acting(got, polled, cos, lor, t) ==
    LET on  == should_turn_on(got.last_temperatures, got.temperature_history, t)
        off == should_turn_off(got.last_temperatures)
    IN  [error_count          |-> polled.error_count,
         last_temperatures    |-> got.last_temperatures,
         temperature_history  |-> got.temperature_history,
         current_outlet_state |-> IF on.on THEN "True"
                                  ELSE IF off.off THEN "False" ELSE cos,
         last_outlet_reason   |-> IF on.on THEN on.reason
                                  ELSE IF off.off THEN off.reason ELSE lor,
         result               |-> IF on.on THEN on.reason
                                  ELSE IF off.off THEN off.reason ELSE "None",
         command              |-> "none",
         should_on            |-> on.on,
         reason_on            |-> on.reason,
         should_off           |-> off.off]

\* lines 241-248: update_control once get_temperatures has returned got, when
\* sonoff_controller is None; should_turn_on and should_turn_off are evaluated
\* for the log only
update_control_without_outlet(got, polled, cos, lor, t) ==
    LET on  == should_turn_on(got.last_temperatures, got.temperature_history, t)
        off == should_turn_off(got.last_temperatures)
    IN  [error_count          |-> polled.error_count,
         last_temperatures    |-> got.last_temperatures,
         temperature_history  |-> got.temperature_history,
         current_outlet_state |-> cos,
         last_outlet_reason   |-> lor,
         result               |-> "None",
         command              |-> "none",
         should_on            |-> on.on,
         reason_on            |-> on.reason,
         should_off           |-> off.off]

\* SonoffController.get_info: the fields a collaborator reads
get_info(sc) ==
    [connected    |-> sc.is_connected,
     offline_mode |-> sc.offline_mode,
     status       |-> sc.last_status,
     simulated    |-> sc.offline_mode,
     last_update  |-> sc.last_update]

\* line 308 of get_system_state: 'on' if outlet_status else ('off' if
\* outlet_status is False else 'unavailable')
OutletStatusWord(status) ==
    IF status = "True" THEN "on"
    ELSE IF status = "False" THEN "off"
    ELSE "unavailable"

\* lines 295-300 of get_system_state
system_state(temps, hist, t) ==
    IF is_startup_period(hist, t) THEN "startup"
    ELSE IF NotNone(get_chimney_temp(temps))
            /\ Val(get_chimney_temp(temps)) < chimney_low_temp
    THEN "cooling_down"
    ELSE "running"

\* TemperatureController.get_system_state with an outlet controller
\* configured: got is the outcome of its get_status() call
get_system_state(got, temps, hist, lor, t) ==
    [state          |-> system_state(temps, hist, t),
     boiler_temp    |-> get_boiler_temp(temps),
     chimney_temp   |-> get_chimney_temp(temps),
     outlet_status  |-> OutletStatusWord(got.result),
     outlet_reason  |-> lor,
     is_startup     |-> is_startup_period(hist, t)]

\* line 84 of APIServer.api_status (and line 123 of api_outlet):
\* 'on' if outlet_info.get('status') else 'off'
ApiOutletStatus(info) == IF info.status = "True" THEN "on" ELSE "off"

---------------------------------------------------------------------------
(* State after construction *)

\* SensorManager._initialize_sensors registers the sensors enabled in the
\* configuration; every registered sensor starts with error_count 0
SensorInit ==
    /\ enabled = [s \in Sensors |-> TRUE]
    /\ error_count = [s \in Sensors |-> 0]

\* a constructor that starts Live also without an address
SonoffInit_always_live ==
    /\ ip_address \in BOOLEAN
    /\ allow_simulation \in BOOLEAN
    /\ offline_mode = FALSE
    /\ is_connected = FALSE
    /\ last_status = "None"
    /\ last_update = None
    /\ simulated_state = FALSE
    /\ power \in BOOLEAN

\* SonoffController.__init__: offline at once when no address is configured
SonoffInit ==
    /\ ip_address \in BOOLEAN
    /\ allow_simulation \in BOOLEAN
    /\ offline_mode = ~ip_address
    /\ is_connected = FALSE
    /\ last_status = "None"
    /\ last_update = None
    /\ simulated_state = FALSE
    /\ power \in BOOLEAN

\* no _send_command call is in progress
Idle == [pc |-> "idle"]

\* TemperatureControlApp.__init__ and the head of run(): the event is clear,
\* the loop has not been entered, nothing has been written
AppInit ==
    /\ shutdown_event = FALSE
    /\ pc = "loop"
    /\ last_outlet_state = "None"
    /\ temperature_readings = {}
    /\ outlet_events = <<>>
    /\ shutdown_calls = 0
    /\ sending = Idle
    /\ api_call = Idle
    /\ test_scenario = "None"

\* TemperatureController.__init__
ControllerInit ==
    /\ current_outlet_state = "None"
    /\ last_outlet_reason = "None"
    /\ last_temperatures = EmptyDict
    /\ temperature_history = <<>>

Init ==
    /\ SensorInit
    /\ SonoffInit
    /\ ControllerInit
    /\ now = 0
    /\ ticks = 0
    /\ call_history = NoCalls
    /\ AppInit
    /\ ret = [op |-> "init"]

SetSonoff(sc, pw) ==
    /\ offline_mode' = sc.offline_mode
    /\ is_connected' = sc.is_connected
    /\ last_status' = sc.last_status
    /\ last_update' = sc.last_update
    /\ simulated_state' = sc.simulated_state
    /\ power' = pw
    /\ UNCHANGED <<ip_address, allow_simulation>>

---------------------------------------------------------------------------
(* The control loop *)

\* what the four probes yield in one poll: boiler, accumulator bottom and top, chimney
Raws(b, ab, at, c) ==
    [s \in Sensors |-> IF s = Boiler THEN b
                       ELSE IF s = AccumulatorBottom THEN ab
                       ELSE IF s = AccumulatorTop THEN at
                       ELSE c]

Snapshots ==
    { Raws(Some(30), Some(40), Some(40), Some(90)),    \* cold
      Raws(Some(36), Some(40), Some(40), Some(96)),    \* warming up
      Raws(Some(75), Some(40), Some(40), Some(160)),   \* running
      Raws(Some(87), Some(40), Some(40), Some(160)),   \* boiler critical
      Raws(Some(50), Some(40), Some(40), Some(248)),   \* chimney critical
      Raws(Some(60), Some(40), Some(77), Some(160)),   \* accumulator critical
      Raws(Some(30), Some(40), Some(40), Some(310)),   \* thermocouple out of range
      Raws(None, None, None, None) }                   \* every probe failing

\* the networks explored during one call of a tick: answered on the second
\* attempt, answered at once with a reply that has no power word, rejected
\* with an HTTP error status, never answered
AllOf(o) == [i \in 1..retry_attempts |-> o]

TickNets ==
    { [script |-> [AllOf("ok") EXCEPT ![1] = "timeout"], garbled |-> FALSE],
      [script |-> AllOf("ok"), garbled |-> TRUE],
      [script |-> AllOf("http_error"), garbled |-> FALSE],
      [script |-> AllOf("connection_error"), garbled |-> FALSE] }

\* SonoffController.connect, called once before the first update_control
Connect ==
    /\ ticks = 0
    /\ ret.op = "init"
    /\ \E n \in TickNets :
          \E r \in {connect(SonoffState, power, n.script)} :
              /\ SetSonoff(r.sc, r.power)
              /\ ret' = [op |-> "connect", result |-> r.result,
                         requests |-> r.requests, sleeps |-> r.sleeps, end |-> r.end]
    /\ UNCHANGED <<appVars, sensorVars, ctlVars, now, ticks, call_history>>

\* one call of TemperatureController.update_control while the probes deliver
\* one of the snapshots given; the caller makes the calls check_interval
\* seconds apart
TickOn(snapshots) ==
    /\ \E raws \in snapshots, n1 \in TickNets, n2 \in TickNets :
          \E r \in {update_control(enabled, error_count, SonoffState,
                                     allow_simulation, power, temperature_history,
                                     current_outlet_state, last_outlet_reason,
                                     raws, n1.script, n1.garbled,
                                     n2.script, n2.garbled, now)} :
              /\ error_count' = r.error_count
              /\ last_temperatures' = r.last_temperatures
              /\ temperature_history' = r.temperature_history
              /\ current_outlet_state' = r.current_outlet_state
              /\ last_outlet_reason' = r.last_outlet_reason
              /\ SetSonoff(r.sc, r.power)
              /\ ret' = [op |-> "update_control", result |-> r.result,
                         status |-> r.status, command |-> r.command,
                         command_result |-> r.command_result,
                         should_on |-> r.should_on, reason_on |-> r.reason_on,
                         should_off |-> r.should_off]
              /\ call_history' =
                    IF r.command = "none"
                    THEN Recorded(call_history, "get_status", FALSE, r.status_end,
                                  power, simulated_state, n1.garbled)
                    ELSE Recorded(Recorded(call_history, "get_status", FALSE,
                                           r.status_end, power, simulated_state,
                                           n1.garbled),
                                  r.command, r.command_result, r.command_end,
                                  r.power, r.sc.simulated_state, n2.garbled)
    /\ now' = now + check_interval
    /\ ticks' = ticks + 1
    /\ UNCHANGED <<enabled, appVars>>

Tick ==
    /\ ticks < MaxTicks
    /\ TickOn(Snapshots)

Next == Connect \/ Tick

Spec == Init /\ [][Next]_vars

---------------------------------------------------------------------------
(* The application: TemperatureControlApp.run() with the Tapo controller *)

\* the state after TemperatureControlApp.__init__, which builds the Tapo
\* controller and calls connect() on it once (main.py lines 75-77)
MainInit ==
    /\ SensorInit
    /\ ip_address \in BOOLEAN
    /\ allow_simulation = FALSE
    /\ power \in BOOLEAN
    /\ \E link \in BOOLEAN :
          \E r \in {Tapo_connect([offline_mode |-> FALSE, is_connected |-> FALSE,
                                  last_status |-> "None", last_update |-> None,
                                  simulated_state |-> FALSE],
                                 power, ip_address, link)} :
             /\ offline_mode = r.sc.offline_mode
             /\ is_connected = r.sc.is_connected
             /\ last_status = r.sc.last_status
             /\ last_update = r.sc.last_update
             /\ simulated_state = r.sc.simulated_state
    /\ ControllerInit
    /\ now = 0
    /\ ticks = 0
    /\ call_history = NoCalls
    /\ AppInit
    /\ ret = [op |-> "init"]

\* the attributes TemperatureController.__init__ gives the object
\* (temperature_controller.py lines 33-58)
controller_attributes ==
    {"sensor_manager", "sonoff_controller", "config", "logger",
     "boiler_critical_temp", "accumulator_critical_temp", "boiler_safe_temp",
     "accumulator_safe_temp", "chimney_critical_temp", "chimney_low_temp",
     "hysteresis", "startup_detection_period", "startup_temp_increase",
     "current_outlet_state", "last_outlet_reason", "last_temperatures",
     "temperature_history"}

\* a loop that looks at nothing before it starts a tick
loop_condition_ignores_event(event) == TRUE

\* main.py line 195: while not self.shutdown_event.is_set()
loop_condition(event) == ~event

\* main.py lines 200-202: one row for every reading that is not None
saved_rows(readings, t) ==
    {[sensor_id |-> s, temperature |-> Val(readings[s]), timestamp |-> t] :
        s \in {x \in DOMAIN readings : NotNone(readings[x])}}

\* the command update_control sends to the Tapo controller for branch, after
\* its get_status has returned status
issue_tapo_command(branch, status, configured, link, answers, t) ==
    IF branch = "turn_on"
    THEN Tapo_turn_on(status.sc, status.power, configured, link, answers, t)
    ELSE IF branch = "turn_off"
    THEN Tapo_turn_off(status.sc, status.power, configured, link, answers, t)
    ELSE TapoOutcome(status.sc, status.power, FALSE, FALSE)

\* _signal_handler (main.py lines 107-110), for SIGINT and SIGTERM
SignalHandler ==
    /\ pc = "loop"
    /\ sending.pc \in {"idle", "request", "sleep"}
    /\ shutdown_event' = TRUE
    /\ ret' = [op |-> "_signal_handler"]
    /\ UNCHANGED <<sensorVars, sonoffVars, ctlVars, now, ticks, call_history, pc,
                   last_outlet_state, temperature_readings, outlet_events,
                   shutdown_calls, sending, api_call, test_scenario>>

\* one iteration of the loop of run() (main.py lines 195-245).  raws1: what
\* the probes yield to get_temperatures() of line 197, raws2: to the one inside
\* update_control(); n1, n2: the device during get_status and the command.
\* Line 208 reads temperature_controller.tapo_controller, which is none of
\* controller_attributes: the AttributeError leaves the while loop for the
\* handler of line 242, and the finally clause runs shutdown().  Lines 209-238
\* are not reached.
MainTick ==
    /\ pc = "loop"
    /\ loop_condition(shutdown_event)
    /\ "tapo_controller" \notin controller_attributes
    /\ \E raws1 \in Snapshots, raws2 \in Snapshots,
          n1 \in [link : BOOLEAN, answers : BOOLEAN],
          n2 \in [link : BOOLEAN, answers : BOOLEAN] :
          \E p1 \in {read_all(enabled, error_count, raws1)} :
          \E g1 \in {get_temperatures(p1.readings, temperature_history, now)} :
          \E p2 \in {read_all(enabled, p1.error_count, raws2)} :
          \E g2 \in {get_temperatures(p2.readings, g1.temperature_history, now)} :
          \E status \in {Tapo_get_status(TapoState, power, ip_address,
                                         n1.link, n1.answers, now)} :
          \E on \in {should_turn_on(g2.last_temperatures, g2.temperature_history,
                                    now)} :
          \E off \in {should_turn_off(g2.last_temperatures)} :
          \E branch \in {control_branch(on.on, off.off, status.result)} :
          \E cmd \in {issue_tapo_command(branch, status, ip_address,
                                         n2.link, n2.answers, now)} :
             /\ temperature_readings' =
                   temperature_readings \cup saved_rows(p1.readings, now)
             /\ error_count' = p2.error_count
             /\ last_temperatures' = g2.last_temperatures
             /\ temperature_history' = g2.temperature_history
             /\ SetSonoff(cmd.sc, cmd.power)
             /\ current_outlet_state' =
                   IF branch # "none" /\ cmd.result
                   THEN PyBool(branch = "turn_on") ELSE current_outlet_state
             /\ last_outlet_reason' =
                   IF ~(branch # "none" /\ cmd.result) THEN last_outlet_reason
                   ELSE IF branch = "turn_on" THEN on.reason ELSE off.reason
             /\ ret' = [op |-> "tick", command |-> branch,
                        command_result |-> cmd.result,
                        outlet_reason |->
                           IF ~(branch # "none" /\ cmd.result) THEN "None"
                           ELSE IF branch = "turn_on" THEN on.reason
                           ELSE off.reason,
                        raised |-> "AttributeError"]
    /\ pc' = "stopped"
    /\ shutdown_calls' = shutdown_calls + 1
    /\ now' = now + 1
    /\ ticks' = ticks + 1
    /\ UNCHANGED <<enabled, call_history, shutdown_event, last_outlet_state,
                   outlet_events, sending, api_call, test_scenario>>

\* the while condition of line 195 is false: run() leaves the loop and the
\* finally clause of lines 244-245 runs shutdown()
MainExit ==
    /\ pc = "loop"
    /\ ~loop_condition(shutdown_event)
    /\ pc' = "stopped"
    /\ shutdown_calls' = shutdown_calls + 1
    /\ ret' = [op |-> "run"]
    /\ UNCHANGED <<sensorVars, sonoffVars, ctlVars, now, ticks, call_history,
                   shutdown_event, last_outlet_state, temperature_readings,
                   outlet_events, sending, api_call, test_scenario>>

NextMain == SignalHandler \/ MainTick \/ MainExit

SpecMain == MainInit /\ [][NextMain]_vars

---------------------------------------------------------------------------
(* The sensor layer on its own: direct reads and polls *)

\* sensor objects as the configuration builds them: all enabled, or the
\* boiler probe and the thermocouple disabled
EnabledConfigs ==
    { [s \in Sensors |-> TRUE],
      [s \in Sensors |-> s \notin {Boiler, Chimney}] }

InitSensor ==
    /\ enabled \in EnabledConfigs
    /\ error_count = [s \in Sensors |-> 0]
    /\ ip_address = TRUE
    /\ allow_simulation = FALSE
    /\ offline_mode = FALSE
    /\ is_connected = FALSE
    /\ last_status = "None"
    /\ last_update = None
    /\ simulated_state = FALSE
    /\ power = FALSE
    /\ ControllerInit
    /\ now = 0
    /\ ticks = 0
    /\ call_history = NoCalls
    /\ AppInit
    /\ ret = [op |-> "init"]

\* one call of sensor.read_temperature(), as SensorManager.get_temperature makes it
ReadTemperature ==
    \E s \in {Boiler, Chimney} : \E raw \in RawsOf(s) :
        /\ error_count[s] < MaxErrorCount
        /\ \E r \in {read_temperature(s, enabled[s], error_count[s], raw)} :
              /\ error_count' = [error_count EXCEPT ![s] = r.error_count]
              /\ ret' = [op |-> "read_temperature", sensor |-> s, raw |-> raw,
                         value |-> r.value,
                         available |-> is_available(enabled[s], r.error_count)]
        /\ UNCHANGED <<appVars, enabled, sonoffVars, ctlVars, now, ticks, call_history>>

\* one poll of SensorManager.read_all
ReadAll ==
    \E raws \in [Sensors -> Ds18b20Raws \cup Max31855Raws] :
        /\ \A s \in Sensors : raws[s] \in RawsOf(s)
        /\ \E r \in {read_all(enabled, error_count, raws)} :
              /\ error_count' = r.error_count
              /\ ret' = [op |-> "read_all", raws |-> raws, readings |-> r.readings]
        /\ UNCHANGED <<appVars, enabled, sonoffVars, ctlVars, now, ticks, call_history>>

NextSensor == ReadTemperature \/ ReadAll

SpecSensor == InitSensor /\ [][NextSensor]_vars

---------------------------------------------------------------------------
(* The sensor layer polled through read_all only *)

NextPoll == ReadAll

SpecPoll == InitSensor /\ [][NextPoll]_vars

---------------------------------------------------------------------------
(* update_control of a TemperatureController built with sonoff_controller None *)

\* no outlet controller object exists: the actuator fields keep the values
\* given here and no action of this specification reads or writes them
InitWithoutOutlet == InitSensor

\* one call of update_control with sonoff_controller None (lines 238-248)
TickWithoutOutlet ==
    /\ ticks < MaxSamples
    /\ \E raws \in Snapshots :
          \E polled \in {read_all(enabled, error_count, raws)} :
             \E r \in {update_control_without_outlet(
                          get_temperatures(polled.readings, temperature_history, now),
                          polled, current_outlet_state, last_outlet_reason, now)} :
                /\ error_count' = r.error_count
                /\ last_temperatures' = r.last_temperatures
                /\ temperature_history' = r.temperature_history
                /\ current_outlet_state' = r.current_outlet_state
                /\ last_outlet_reason' = r.last_outlet_reason
                /\ ret' = [op |-> "update_control", result |-> r.result,
                           command |-> r.command, raws |-> raws,
                           should_on |-> r.should_on, reason_on |-> r.reason_on,
                           should_off |-> r.should_off]
    /\ now' = now + check_interval
    /\ ticks' = ticks + 1
    /\ UNCHANGED <<appVars, enabled, sonoffVars, call_history>>

NextWithoutOutlet == TickWithoutOutlet

SpecWithoutOutlet == InitWithoutOutlet /\ [][NextWithoutOutlet]_vars

---------------------------------------------------------------------------
(* The outlet controller on its own: any sequence of calls *)

\* the POWER word of the reply a call got: "none" without a reply, "" when the
\* reply has no ON/OFF word
ReplyWord(op, end, pw, garbled) ==
    IF end # "reply" THEN "none"
    ELSE IF op = "connect" THEN ""
    ELSE PowerWord(pw, garbled)

\* one call op of the controller while the network behaves as script and
\* garbled say; online: a request, if one is made, is answered at once
SonoffCall(op, r, script, garbled) ==
    /\ SetSonoff(r.sc, r.power)
    /\ ret' = [op |-> op, result |-> r.result, requests |-> r.requests,
               sleeps |-> r.sleeps, end |-> r.end,
               word |-> ReplyWord(op, r.end, r.power, garbled),
               online |-> script[1] = "ok"]
    /\ call_history' = Recorded(call_history, op, r.result, r.end, r.power,
                                r.sc.simulated_state, garbled)
    /\ now' = now + 1
    /\ ticks' = ticks + 1
    /\ UNCHANGED <<appVars, sensorVars, ctlVars>>

SonoffConnect ==
    /\ ticks < MaxCalls
    /\ \E script \in Scripts :
          SonoffCall("connect", connect(SonoffState, power, script), script, FALSE)

SonoffTurnOn ==
    /\ ticks < MaxCalls
    /\ \E script \in Scripts, garbled \in BOOLEAN :
          SonoffCall("turn_on", turn_on(SonoffState, allow_simulation, power,
                                        script, garbled, now), script, garbled)

SonoffTurnOff ==
    /\ ticks < MaxCalls
    /\ \E script \in Scripts, garbled \in BOOLEAN :
          SonoffCall("turn_off", turn_off(SonoffState, allow_simulation, power,
                                          script, garbled, now), script, garbled)

SonoffGetStatus ==
    /\ ticks < MaxCalls
    /\ \E script \in Scripts, garbled \in BOOLEAN :
          SonoffCall("get_status", get_status(SonoffState, allow_simulation, power,
                                              script, garbled, now), script, garbled)

SonoffToggle ==
    /\ ticks < MaxCalls
    /\ \E script \in Scripts, garbled \in BOOLEAN :
          SonoffCall("toggle", toggle(SonoffState, allow_simulation, power,
                                      script, garbled, now), script, garbled)

NextSonoff ==
    SonoffConnect \/ SonoffTurnOn \/ SonoffTurnOff \/ SonoffGetStatus \/ SonoffToggle

SpecSonoff == Init /\ [][NextSonoff]_vars

---------------------------------------------------------------------------
(* The Tapo controller on its own: any sequence of calls *)

\* TapoController.__init__; ip_address stands for a complete tapo section and
\* an installed library; allow_simulation is the permission of the
\* configuration, which TapoController never reads
TapoInit ==
    /\ SensorInit
    /\ ip_address \in BOOLEAN
    /\ allow_simulation \in BOOLEAN
    /\ offline_mode = FALSE
    /\ is_connected = FALSE
    /\ last_status = "None"
    /\ last_update = None
    /\ simulated_state = FALSE
    /\ power \in BOOLEAN
    /\ ControllerInit
    /\ now = 0
    /\ ticks = 0
    /\ call_history = NoCalls
    /\ AppInit
    /\ ret = [op |-> "init"]

\* one call op of the Tapo controller; unreachable: the device neither
\* accepts a login nor answers a request during the call
TapoCall(op, r, link, answers) ==
    /\ SetSonoff(r.sc, r.power)
    /\ ret' = [op |-> op, result |-> r.result, reached |-> r.reached,
               unreachable |-> ~link /\ ~answers]
    /\ now' = now + 1
    /\ ticks' = ticks + 1
    /\ UNCHANGED <<appVars, sensorVars, ctlVars, call_history>>

TapoConnect ==
    /\ ticks < MaxCalls
    /\ \E link \in BOOLEAN :
          TapoCall("connect", Tapo_connect(TapoState, power, ip_address, link),
                   link, link)

TapoTurnOn ==
    /\ ticks < MaxCalls
    /\ \E link \in BOOLEAN, answers \in BOOLEAN :
          TapoCall("turn_on", Tapo_turn_on(TapoState, power, ip_address, link,
                                           answers, now), link, answers)

TapoTurnOff ==
    /\ ticks < MaxCalls
    /\ \E link \in BOOLEAN, answers \in BOOLEAN :
          TapoCall("turn_off", Tapo_turn_off(TapoState, power, ip_address, link,
                                             answers, now), link, answers)

TapoGetStatus ==
    /\ ticks < MaxCalls
    /\ \E link \in BOOLEAN, answers \in BOOLEAN :
          TapoCall("get_status", Tapo_get_status(TapoState, power, ip_address, link,
                                                 answers, now), link, answers)

NextTapo == TapoConnect \/ TapoTurnOn \/ TapoTurnOff \/ TapoGetStatus

SpecTapo == TapoInit /\ [][NextTapo]_vars

---------------------------------------------------------------------------
(* The decision functions on their own *)

\* readings around the thresholds 73 (boiler safe + hysteresis) and 82
\* (boiler critical - hysteresis)
BoilerTemps == {None, Some(50), Some(72), Some(73), Some(82)}

\* readings around 68 (accumulator safe + hysteresis) and 77 (critical - hysteresis)
AccumulatorBottomTemps == {None, Some(40), Some(68)}

AccumulatorTopTemps == {None, Some(67), Some(77)}

\* readings around 100 (chimney low) and 247 (chimney critical - hysteresis)
ChimneyTemps == {None, Some(99), Some(100), Some(246), Some(247), Some(248)}

\* the controller after one or two polls that ended in the readings
\* (b, ab, at, c); the earlier poll, if any, read boiler 30 and chimney 90
AfterPolls(b, ab, at, c, earlier) ==
    /\ last_temperatures = Raws(b, ab, at, c)
    /\ temperature_history =
          IF earlier
          THEN << [t |-> 0, boiler |-> Some(30), chimney |-> Some(90)],
                  [t |-> check_interval, boiler |-> b, chimney |-> c] >>
          ELSE << [t |-> check_interval, boiler |-> b, chimney |-> c] >>
    /\ error_count = [s \in Sensors |->
                         IF IsNone(Raws(b, ab, at, c)[s]) THEN 1 ELSE 0]

InitDecide ==
    /\ enabled = [s \in Sensors |-> TRUE]
    /\ \/ /\ last_temperatures = EmptyDict
          /\ temperature_history = <<>>
          /\ error_count = [s \in Sensors |-> 0]
       \/ \E b \in BoilerTemps, ab \in AccumulatorBottomTemps,
             at \in AccumulatorTopTemps, c \in ChimneyTemps, earlier \in BOOLEAN :
             AfterPolls(b, ab, at, c, earlier)
    /\ current_outlet_state = "None"
    /\ last_outlet_reason = "None"
    /\ ip_address = TRUE
    /\ allow_simulation = FALSE
    /\ offline_mode = FALSE
    /\ is_connected = FALSE
    /\ last_status = "None"
    /\ last_update = None
    /\ simulated_state = FALSE
    /\ power = FALSE
    /\ now = check_interval
    /\ ticks = 0
    /\ call_history = NoCalls
    /\ AppInit
    /\ ret = [op |-> "init"]

ShouldTurnOn ==
    /\ \E r \in {should_turn_on(last_temperatures, temperature_history, now)} :
          ret' = [op |-> "should_turn_on", on |-> r.on, reason |-> r.reason]
    /\ UNCHANGED <<appVars, sensorVars, sonoffVars, ctlVars, now, ticks, call_history>>

ShouldTurnOff ==
    /\ \E r \in {should_turn_off(last_temperatures)} :
          ret' = [op |-> "should_turn_off", off |-> r.off, reason |-> r.reason]
    /\ UNCHANGED <<appVars, sensorVars, sonoffVars, ctlVars, now, ticks, call_history>>

IsStartupPeriod ==
    /\ ret' = [op |-> "is_startup_period",
               value |-> is_startup_period(temperature_history, now)]
    /\ UNCHANGED <<appVars, sensorVars, sonoffVars, ctlVars, now, ticks, call_history>>

NextDecide == ShouldTurnOn \/ ShouldTurnOff \/ IsStartupPeriod

SpecDecide == InitDecide /\ [][NextDecide]_vars

---------------------------------------------------------------------------
(* The trend window: samples taken by get_temperatures, then is_startup_period *)

\* (boiler, chimney) readings of one sample
TrendSamples ==
    { <<Some(30), Some(100)>>, <<Some(34), Some(106)>>, <<Some(35), Some(105)>>,
      <<Some(36), Some(106)>>, <<None, Some(106)>>, <<Some(36), None>> }

\* seconds between two samples
Intervals == {30, 90}

InitTrend ==
    /\ InitSensor
    /\ enabled = [s \in Sensors |-> TRUE]

\* TemperatureController.get_temperatures, dt seconds after the last one
GetTemperatures ==
    /\ ticks < MaxSamples
    /\ \E p \in TrendSamples, dt \in Intervals :
          /\ now' = now + dt
          /\ \E polled \in {read_all(enabled, error_count,
                                     Raws(p[1], Some(40), Some(40), p[2]))} :
                /\ error_count' = polled.error_count
                /\ \E got \in {get_temperatures(polled.readings,
                                                temperature_history, now + dt)} :
                      /\ last_temperatures' = got.last_temperatures
                      /\ temperature_history' = got.temperature_history
                      /\ ret' = [op |-> "get_temperatures",
                                 readings |-> got.last_temperatures]
    /\ ticks' = ticks + 1
    /\ UNCHANGED <<appVars, enabled, sonoffVars, current_outlet_state, last_outlet_reason,
                   call_history>>

NextTrend == GetTemperatures \/ IsStartupPeriod

SpecTrend == InitTrend /\ [][NextTrend]_vars

---------------------------------------------------------------------------
(* The trend window when it is full *)

\* how many samples the window holds when the exploration starts: one append
\* fills it, every later one evicts
WindowFills == {HistoryMaxLen - 1}

\* the window after k polls, check_interval apart, of a cold boiler
ColdWindow(k) ==
    [i \in 1..k |-> [t |-> i * check_interval, boiler |-> Some(30),
                     chimney |-> Some(100)]]

\* a controller that has polled a cold boiler k times, k in WindowFills
InitWindow ==
    /\ SensorInit
    /\ ip_address = TRUE
    /\ allow_simulation = FALSE
    /\ offline_mode = FALSE
    /\ is_connected = FALSE
    /\ last_status = "None"
    /\ last_update = None
    /\ simulated_state = FALSE
    /\ power = FALSE
    /\ \E k \in WindowFills :
          /\ temperature_history = ColdWindow(k)
          /\ now = k * check_interval
    /\ last_temperatures =
          read_all(enabled, error_count,
                   Raws(Some(30), Some(40), Some(40), Some(100))).readings
    /\ current_outlet_state = "None"
    /\ last_outlet_reason = "None"
    /\ ticks = 0
    /\ call_history = NoCalls
    /\ AppInit
    /\ ret = [op |-> "init"]

NextWindow == GetTemperatures \/ IsStartupPeriod

SpecWindow == InitWindow /\ [][NextWindow]_vars

---------------------------------------------------------------------------
(* The retry loop on its own, for any configured retry count *)

\* values of sonoff.retry_attempts in the configuration, on both sides of [1,10]
ConfiguredRetries == -1 .. MaxConfiguredRetries

Retryable == {"timeout", "connection_error"}

\* the network during one call that makes up to n attempts: the first k
\* attempts fail in the retryable way r, the next one ends in o, any later
\* one would be answered
RetryScripts(n) ==
    { [i \in 1..n |-> IF i <= k THEN r ELSE IF i = k + 1 THEN o ELSE "ok"] :
        k \in 0..n, r \in Retryable, o \in AttemptOutcomes }

InitRetry == InitSensor

\* one call of _send_command by a controller built with the configured count
SendCommand ==
    /\ \E configured \in ConfiguredRetries :
          \E n \in {configured_retry_attempts(configured)} :
             \E script \in RetryScripts(n) :
                \E r \in {IF offline_mode THEN NotSent
                          ELSE retry_loop(n, 1, 0, script)} :
                   ret' = [op |-> "_send_command", configured |-> configured,
                           retry_attempts |-> n, script |-> script,
                           end |-> r.end, requests |-> r.requests,
                           sleeps |-> r.sleeps]
    /\ UNCHANGED <<appVars, sensorVars, sonoffVars, ctlVars, now, ticks, call_history>>

NextRetry == SendCommand

SpecRetry == InitRetry /\ [][NextRetry]_vars

---------------------------------------------------------------------------
(* A command in its retry sequence when the shutdown signal arrives *)

ShutdownInit == InitSensor

\* _send_command is entered by a Live controller built with the configured
\* retry count, before any signal (lines 77-85)
BeginSend ==
    /\ sending.pc = "idle"
    /\ ~offline_mode
    /\ ~shutdown_event
    /\ \E configured \in ConfiguredRetries :
          sending' = [pc |-> "request", attempt |-> 1, requests |-> 0,
                      retry_attempts |-> configured_retry_attempts(configured),
                      end |-> "none"]
    /\ ret' = [op |-> "_send_command"]
    /\ UNCHANGED <<sensorVars, sonoffVars, ctlVars, now, ticks, call_history,
                   shutdown_event, pc, last_outlet_state, temperature_readings,
                   outlet_events, shutdown_calls, api_call, test_scenario>>

\* one pass of the for loop up to its sleep (lines 85-119): the request of
\* line 87 ends in outcome; a timeout or connection error before the last
\* attempt goes on to time.sleep, anything else ends the call
Attempt ==
    /\ sending.pc = "request"
    /\ \E outcome \in AttemptOutcomes :
          /\ sending' =
                [sending EXCEPT
                   !.requests = @ + 1,
                   !.pc = IF outcome \in {"timeout", "connection_error"}
                             /\ sending.attempt < sending.retry_attempts
                          THEN "sleep" ELSE "done",
                   !.end = IF outcome = "ok" THEN "reply"
                           ELSE IF outcome \in {"timeout", "connection_error"}
                           THEN IF sending.attempt < sending.retry_attempts
                                THEN "none" ELSE "exhausted"
                           ELSE outcome]
          /\ ret' = [op |-> "requests.get", outcome |-> outcome]
    /\ UNCHANGED <<sensorVars, sonoffVars, ctlVars, now, ticks, call_history,
                   shutdown_event, pc, last_outlet_state, temperature_readings,
                   outlet_events, shutdown_calls, api_call, test_scenario>>

\* time.sleep(self.retry_delay) returns (lines 102 and 110) and the for loop
\* goes on to its next attempt; nothing on the way looks at shutdown_event
Sleep ==
    /\ sending.pc = "sleep"
    /\ sending' = [sending EXCEPT !.pc = "request", !.attempt = @ + 1]
    /\ ret' = [op |-> "time.sleep"]
    /\ UNCHANGED <<sensorVars, sonoffVars, ctlVars, now, ticks, call_history,
                   shutdown_event, pc, last_outlet_state, temperature_readings,
                   outlet_events, shutdown_calls, api_call, test_scenario>>

NextShutdown == BeginSend \/ Attempt \/ Sleep \/ SignalHandler

SpecShutdown == ShutdownInit /\ [][NextShutdown]_vars

---------------------------------------------------------------------------
(* What collaborators are shown of the outlet *)

\* SonoffController.get_info(): reads the object, changes nothing
GetInfo ==
    /\ ticks < MaxCalls
    /\ ret' = [op |-> "get_info", status |-> get_info(SonoffState).status,
               connected |-> get_info(SonoffState).connected]
    /\ now' = now + 1
    /\ ticks' = ticks + 1
    /\ UNCHANGED <<appVars, sensorVars, sonoffVars, ctlVars, call_history>>

\* TemperatureController.get_system_state(): it asks the outlet for its status
GetSystemState ==
    /\ ticks < MaxCalls
    /\ \E n \in TickNets :
          \E got \in {get_status(SonoffState, allow_simulation, power,
                                 n.script, n.garbled, now)} :
             /\ SetSonoff(got.sc, got.power)
             /\ call_history' = Recorded(call_history, "get_status", FALSE, got.end,
                                         got.power, got.sc.simulated_state, n.garbled)
             /\ ret' = [op |-> "get_system_state", end |-> got.end,
                        requests |-> got.requests,
                        outlet_status |->
                           get_system_state(got, last_temperatures,
                                            temperature_history,
                                            last_outlet_reason, now).outlet_status,
                        state |->
                           get_system_state(got, last_temperatures,
                                            temperature_history,
                                            last_outlet_reason, now).state]
    /\ now' = now + 1
    /\ ticks' = ticks + 1
    /\ UNCHANGED <<appVars, sensorVars, ctlVars>>

\* GET /api/status: outlet_status is taken from get_info(), then
\* get_system_state() is called for the timestamp
ApiStatus ==
    /\ ticks < MaxCalls
    /\ \E n \in TickNets :
          \E got \in {get_status(SonoffState, allow_simulation, power,
                                 n.script, n.garbled, now)} :
             /\ SetSonoff(got.sc, got.power)
             /\ call_history' = Recorded(call_history, "get_status", FALSE, got.end,
                                         got.power, got.sc.simulated_state, n.garbled)
             /\ ret' = [op |-> "api_status", end |-> got.end,
                        requests |-> got.requests,
                        outlet_status |-> ApiOutletStatus(get_info(SonoffState))]
    /\ now' = now + 1
    /\ ticks' = ticks + 1
    /\ UNCHANGED <<appVars, sensorVars, ctlVars>>

NextReport ==
    SonoffConnect \/ SonoffTurnOn \/ GetInfo \/ GetSystemState \/ ApiStatus

SpecReport == Init /\ [][NextReport]_vars

---------------------------------------------------------------------------
(* The outlet controller shared by the control thread and the API thread *)

\* get_status() entered by the API server's thread (lines 284-292): offline it
\* returns at once; Live it runs _send_command("Power") and holds the answer
ApiGetStatusSend ==
    /\ ticks < MaxCalls
    /\ api_call.pc = "idle"
    /\ \E script \in Scripts, garbled \in BOOLEAN :
          IF offline_mode
          THEN /\ api_call' = Idle
               /\ ret' = [op |-> "api_get_status",
                          result |-> get_status(SonoffState, allow_simulation, power,
                                                script, garbled, now).result]
          ELSE /\ api_call' = [pc |-> "sent", sent |-> _send_command(SonoffState, script),
                               word |-> PowerWord(power, garbled)]
               /\ ret' = [op |-> "api_send_command"]
    /\ now' = now + 1
    /\ ticks' = ticks + 1
    /\ UNCHANGED <<sensorVars, sonoffVars, ctlVars, call_history, shutdown_event, pc,
                   last_outlet_state, temperature_readings, outlet_events,
                   shutdown_calls, sending, test_scenario>>

\* the rest of that get_status() (lines 293-319), on the fields as they are
\* by now
ApiGetStatusReturn ==
    /\ api_call.pc = "sent"
    /\ \E got \in {get_status_live(SonoffState, allow_simulation, power,
                                   api_call.sent, api_call.word, now)} :
          /\ SetSonoff(got.sc, got.power)
          /\ ret' = [op |-> "api_get_status", result |-> got.result]
    /\ api_call' = Idle
    /\ UNCHANGED <<sensorVars, ctlVars, now, ticks, call_history, shutdown_event, pc,
                   last_outlet_state, temperature_readings, outlet_events,
                   shutdown_calls, sending, test_scenario>>

\* the control thread calls the controller from update_control, the API
\* thread from get_system_state; nothing serialises the two
NextThreads ==
    \/ SonoffTurnOn
    \/ SonoffTurnOff
    \/ SonoffGetStatus
    \/ ApiGetStatusSend
    \/ ApiGetStatusReturn

SpecThreads == Init /\ [][NextThreads]_vars

---------------------------------------------------------------------------
(* get_system_state on the API thread while the control thread polls *)

\* line 284: boiler_temp = self.get_boiler_temp(), which looks the value up
\* in the dictionary self.last_temperatures refers to at that moment
ApiReadBoiler ==
    /\ api_call.pc = "idle"
    /\ api_call' = [pc |-> "accumulators",
                    boiler_temp |-> get_boiler_temp(last_temperatures),
                    read |-> {last_temperatures}]
    /\ ret' = [op |-> "get_boiler_temp"]
    /\ UNCHANGED <<sensorVars, sonoffVars, ctlVars, now, ticks, call_history,
                   shutdown_event, pc, last_outlet_state, temperature_readings,
                   outlet_events, shutdown_calls, sending, test_scenario>>

\* line 285: bottom_temp, top_temp = self.get_accumulator_temps()
ApiReadAccumulators ==
    /\ api_call.pc = "accumulators"
    /\ api_call' = [pc |-> "chimney",
                    boiler_temp |-> api_call.boiler_temp,
                    accumulator_bottom_temp |->
                        get_accumulator_temps(last_temperatures).bottom,
                    accumulator_top_temp |->
                        get_accumulator_temps(last_temperatures).top,
                    read |-> api_call.read \cup {last_temperatures}]
    /\ ret' = [op |-> "get_accumulator_temps"]
    /\ UNCHANGED <<sensorVars, sonoffVars, ctlVars, now, ticks, call_history,
                   shutdown_event, pc, last_outlet_state, temperature_readings,
                   outlet_events, shutdown_calls, sending, test_scenario>>

\* line 286: chimney_temp = self.get_chimney_temp()
ApiReadChimney ==
    /\ api_call.pc = "chimney"
    /\ api_call' = [pc |-> "status",
                    boiler_temp |-> api_call.boiler_temp,
                    accumulator_bottom_temp |-> api_call.accumulator_bottom_temp,
                    accumulator_top_temp |-> api_call.accumulator_top_temp,
                    chimney_temp |-> get_chimney_temp(last_temperatures),
                    read |-> api_call.read \cup {last_temperatures}]
    /\ ret' = [op |-> "get_chimney_temp"]
    /\ UNCHANGED <<sensorVars, sonoffVars, ctlVars, now, ticks, call_history,
                   shutdown_event, pc, last_outlet_state, temperature_readings,
                   outlet_events, shutdown_calls, sending, test_scenario>>

\* lines 288-313: the outlet is asked for its status and the dictionary is
\* built from the locals; system_state looks at the local chimney_temp
ApiSystemStateReturn ==
    /\ api_call.pc = "status"
    /\ \E n \in TickNets :
          \E got \in {get_status(SonoffState, allow_simulation, power,
                                 n.script, n.garbled, now)} :
             /\ SetSonoff(got.sc, got.power)
             /\ call_history' = Recorded(call_history, "get_status", FALSE, got.end,
                                         got.power, got.sc.simulated_state, n.garbled)
             /\ ret' = [op |-> "api_get_system_state",
                        state |->
                           IF is_startup_period(temperature_history, now)
                           THEN "startup"
                           ELSE IF NotNone(api_call.chimney_temp)
                                   /\ Val(api_call.chimney_temp) < chimney_low_temp
                           THEN "cooling_down"
                           ELSE "running",
                        boiler_temp |-> api_call.boiler_temp,
                        accumulator_bottom_temp |-> api_call.accumulator_bottom_temp,
                        accumulator_top_temp |-> api_call.accumulator_top_temp,
                        chimney_temp |-> api_call.chimney_temp,
                        outlet_status |-> OutletStatusWord(got.result),
                        outlet_reason |-> last_outlet_reason,
                        read |-> api_call.read]
    /\ api_call' = Idle
    /\ UNCHANGED <<sensorVars, ctlVars, now, ticks, shutdown_event, pc,
                   last_outlet_state, temperature_readings, outlet_events,
                   shutdown_calls, sending, test_scenario>>

\* the control thread's get_temperatures (main.py line 197) may run between
\* any two steps of the API thread
NextSnapshot ==
    \/ GetTemperatures
    \/ ApiReadBoiler
    \/ ApiReadAccumulators
    \/ ApiReadChimney
    \/ ApiSystemStateReturn

SpecSnapshot == InitTrend /\ [][NextSnapshot]_vars

---------------------------------------------------------------------------
(* The control loop while the chimney stays critically hot *)

\* what the probes deliver while the flue gas is at or above
\* chimney_critical_temp - hysteresis; 310 is beyond the range the
\* thermocouple reading is accepted in
HotSnapshots ==
    { Raws(Some(50), Some(40), Some(40), Some(248)),
      Raws(Some(30), Some(40), Some(40), Some(248)),
      Raws(Some(30), Some(40), Some(40), Some(310)),
      Raws(Some(75), Some(40), Some(40), Some(310)) }

HotTick ==
    /\ ticks < MaxTicks
    /\ TickOn(HotSnapshots)

NextHot == Connect \/ HotTick

SpecHot == Init /\ [][NextHot]_vars

---------------------------------------------------------------------------
(* The control loop while the boiler is being lit *)

\* the probes while the fire catches: cold, then warmer by more than
\* startup_temp_increase and still below every safe threshold
WarmingSnapshots ==
    { Raws(Some(30), Some(40), Some(40), Some(90)),
      Raws(Some(36), Some(40), Some(40), Some(96)) }

WarmingTick ==
    /\ ticks < MaxSamples
    /\ TickOn(WarmingSnapshots)

NextWarming == Connect \/ WarmingTick

SpecWarming == Init /\ [][NextWarming]_vars

---------------------------------------------------------------------------
(* Test mode: the application started with --test-mode --scenario *)

Scenarios == {"normal", "critical", "cooling", "startup"}

\* _apply_test_scenario (main.py lines 118-143): the base temperature each
\* test sensor is set to
test_temps(scenario) ==
    IF scenario = "critical" THEN Raws(Some(87), Some(82), Some(85), Some(220))
    ELSE IF scenario = "cooling" THEN Raws(Some(55), Some(50), Some(52), Some(90))
    ELSE IF scenario = "startup" THEN Raws(Some(35), Some(30), Some(32), Some(120))
    ELSE Raws(Some(72), Some(68), Some(70), Some(160))

\* TestDS18B20Sensor / TestMAX31855Sensor.read_temperature: the base
\* temperature plus random.uniform(-variation, variation), variation 2.0 and
\* 5.0 by default; the two ends of the range are explored
Variations(s) == IF IsMax31855(s) THEN {0 - 5, 5} ELSE {0 - 2, 2}

TestReads(scenario) ==
    {[s \in Sensors |-> Some(Val(test_temps(scenario)[s]) + v[s])] :
        v \in {f \in [Sensors -> {0 - 5, 0 - 2, 2, 5}] :
                  \A s \in Sensors : f[s] \in Variations(s)}}

\* SensorManager.read_all over test sensors, which record no errors
test_read_all(en, ec, temps) ==
    [readings    |-> [s \in Registered(en) |->
                        IF is_available(en[s], ec[s]) THEN temps[s] ELSE None],
     error_count |-> ec]

\* TestTapoController.get_status, turn_on and turn_off
TestTapo_get_status(sc) == sc.last_status

TestTapo_turn_on(sc, t) ==
    [sc EXCEPT !.last_status = "True", !.last_update = Some(t)]

TestTapo_turn_off(sc, t) ==
    [sc EXCEPT !.last_status = "False", !.last_update = Some(t)]

\* TemperatureControlApp.__init__ in test mode and the head of run(): the
\* TestTapoController starts connected and off, the scenario is applied
ScenarioInit ==
    /\ SensorInit
    /\ ip_address = TRUE
    /\ allow_simulation = FALSE
    /\ power = FALSE
    /\ offline_mode = FALSE
    /\ is_connected = TRUE
    /\ last_status = "False"
    /\ last_update = None
    /\ simulated_state = FALSE
    /\ ControllerInit
    /\ now = 0
    /\ ticks = 0
    /\ call_history = NoCalls
    /\ shutdown_event = FALSE
    /\ pc = "loop"
    /\ last_outlet_state = "None"
    /\ temperature_readings = {}
    /\ outlet_events = <<>>
    /\ shutdown_calls = 0
    /\ sending = Idle
    /\ api_call = Idle
    /\ test_scenario \in Scenarios
    /\ ret = [op |-> "init"]

\* one iteration of the loop of run() in test mode (main.py lines 195-208):
\* get_temperatures(), the rows saved, update_control() on the
\* TestTapoController, then the AttributeError of line 208
ScenarioTick ==
    /\ pc = "loop"
    /\ loop_condition(shutdown_event)
    /\ "tapo_controller" \notin controller_attributes
    /\ \E temps1 \in TestReads(test_scenario), temps2 \in TestReads(test_scenario) :
          \E p1 \in {test_read_all(enabled, error_count, temps1)} :
          \E g1 \in {get_temperatures(p1.readings, temperature_history, now)} :
          \E p2 \in {test_read_all(enabled, p1.error_count, temps2)} :
          \E g2 \in {get_temperatures(p2.readings, g1.temperature_history, now)} :
          \E on \in {should_turn_on(g2.last_temperatures, g2.temperature_history,
                                    now)} :
          \E off \in {should_turn_off(g2.last_temperatures)} :
          \E branch \in {control_branch(on.on, off.off,
                                        TestTapo_get_status(SonoffState))} :
             /\ temperature_readings' =
                   temperature_readings \cup saved_rows(p1.readings, now)
             /\ error_count' = p2.error_count
             /\ last_temperatures' = g2.last_temperatures
             /\ temperature_history' = g2.temperature_history
             /\ SetSonoff(IF branch = "turn_on" THEN TestTapo_turn_on(SonoffState, now)
                          ELSE IF branch = "turn_off"
                          THEN TestTapo_turn_off(SonoffState, now)
                          ELSE SonoffState, power)
             /\ current_outlet_state' =
                   IF branch = "none" THEN current_outlet_state
                   ELSE PyBool(branch = "turn_on")
             /\ last_outlet_reason' =
                   IF branch = "turn_on" THEN on.reason
                   ELSE IF branch = "turn_off" THEN off.reason
                   ELSE last_outlet_reason
             /\ ret' = [op |-> "tick", command |-> branch,
                        command_result |-> branch # "none",
                        outlet_reason |->
                           IF branch = "turn_on" THEN on.reason
                           ELSE IF branch = "turn_off" THEN off.reason
                           ELSE "None",
                        raised |-> "AttributeError"]
    /\ pc' = "stopped"
    /\ shutdown_calls' = shutdown_calls + 1
    /\ now' = now + 1
    /\ ticks' = ticks + 1
    /\ UNCHANGED <<enabled, call_history, shutdown_event, last_outlet_state,
                   outlet_events, sending, api_call, test_scenario>>

\* GET /api/system (server.py lines 135-145), which check_scenario_conditions
\* polls: get_system_state() with the TestTapoController's status.  The
\* server thread is a daemon that answers for as long as the process lives
ApiSystem ==
    /\ ret' = [op |-> "api_system",
               state |-> system_state(last_temperatures, temperature_history, now),
               boiler_temp |-> get_boiler_temp(last_temperatures),
               chimney_temp |-> get_chimney_temp(last_temperatures),
               outlet_status |-> OutletStatusWord(TestTapo_get_status(SonoffState)),
               outlet_reason |-> last_outlet_reason]
    /\ UNCHANGED <<sensorVars, sonoffVars, ctlVars, now, ticks, call_history,
                   shutdown_event, pc, last_outlet_state, temperature_readings,
                   outlet_events, shutdown_calls, sending, api_call, test_scenario>>

NextScenario == ScenarioTick \/ ApiSystem

\* the loop thread takes its tick and the client of test_scenarios.py keeps
\* polling
SpecScenario ==
    ScenarioInit /\ [][NextScenario]_vars
       /\ WF_vars(ScenarioTick) /\ WF_vars(ApiSystem)

---------------------------------------------------------------------------
(* Properties *)

\* the reading of sensor s in last_temperatures, None when there is none
Reading(s) == IF s \in DOMAIN last_temperatures THEN last_temperatures[s] ELSE None

AtLeast(s, limit) == NotNone(Reading(s)) /\ Val(Reading(s)) >= limit

Below(s, limit) == IsNone(Reading(s)) \/ Val(Reading(s)) < limit

ChimneyCritical == AtLeast(Chimney, chimney_critical_temp - hysteresis)

Ticked == ret.op = "update_control"

\* C1: in every tick of update_control, turn_off is issued only if no turn-on
\* condition holds in that tick (should_turn_on is false); in particular the
\* outlet is never switched off while startup is detected.
C1_TurnOffOnlyWithoutTurnOn ==
    (Ticked /\ ret.command = "turn_off") => ~ret.should_on

\* C2: in a tick whose chimney reading is present and at or above
\* chimney_critical - hysteresis, update_control never issues turn_off, and it
\* issues turn_on if the actuator reports off or unknown.
C2_ChimneyKeepsOutletOn ==
    (Ticked /\ ChimneyCritical) =>
        /\ ret.command # "turn_off"
        /\ ret.status \in {"False", "None"} => ret.command = "turn_on"

\* the spec's scenario: chimney 248, boiler 50, accumulator 40, outlet not on
C2_Witness ==
    /\ Ticked
    /\ Reading(Chimney) = Some(248)
    /\ Reading(Boiler) = Some(50)
    /\ Reading(AccumulatorTop) = Some(40)
    /\ ret.status = "None"
    /\ ret.command = "turn_on"

\* C3: whenever the chimney reading is at or above chimney_critical -
\* hysteresis, the reason should_turn_on returns is chimney_critical, also
\* when startup is detected in the same evaluation.
C3_ChimneyReasonFirst ==
    (ret.op = "should_turn_on" /\ ChimneyCritical) => ret.reason = "chimney_critical"

CriticalReadings ==
    \/ ChimneyCritical
    \/ AtLeast(Boiler, boiler_critical_temp - hysteresis)
    \/ AtLeast(AccumulatorBottom, accumulator_critical_temp - hysteresis)
    \/ AtLeast(AccumulatorTop, accumulator_critical_temp - hysteresis)

\* C4: in every tick in which the readings meet a critical condition and the
\* actuator reports on (as in every tick that follows a successful turn_on for
\* a critical condition with the readings unchanged), update_control issues no
\* command and returns no reason.
C4_NoRepeatedTurnOn ==
    (Ticked /\ CriticalReadings /\ ret.status = "True") =>
        (ret.command = "none" /\ ret.result = "None")

\* boiler 87: the first tick switched on for boiler_critical, the second is a no-op
C4_Witness ==
    /\ Ticked
    /\ ticks = 2
    /\ Len(temperature_history) = 2
    /\ temperature_history[1].boiler = Some(87)
    /\ temperature_history[2].boiler = Some(87)
    /\ current_outlet_state = "True"
    /\ last_outlet_reason = "boiler_critical"
    /\ ret.status = "True"
    /\ ret.command = "none"
    /\ ret.result = "None"

\* C5: update_control calls turn_on only in ticks in which get_status returned
\* False or None, and turn_off only in ticks in which it returned True; a tick
\* that calls neither returns None.
C5_CommandsMatchStatus ==
    Ticked =>
        /\ ret.command = "turn_on" => ret.status \in {"False", "None"}
        /\ ret.command = "turn_off" => ret.status = "True"
        /\ ret.command = "none" => (ret.result = "None" /\ ~ret.command_result)

C5_Witness ==
    /\ Ticked
    /\ ret.command = "turn_off"
    /\ ret.status = "True"
    /\ ret.result = "safe_temperatures"

\* the statement of should_turn_off in terms of the four readings
TurnOffStated ==
    /\ ~ChimneyCritical
    /\ Below(Boiler, boiler_safe_temp + hysteresis)
    /\ Below(AccumulatorBottom, accumulator_safe_temp + hysteresis)
    /\ Below(AccumulatorTop, accumulator_safe_temp + hysteresis)
    /\ Below(Chimney, chimney_low_temp)

AllAbsent == \A s \in Sensors : IsNone(Reading(s))

\* C6: should_turn_off is true exactly when the chimney is not at or above
\* chimney_critical - hysteresis, the boiler is absent or below boiler_safe +
\* hysteresis, the larger accumulator reading is absent or below
\* accumulator_safe + hysteresis, and the chimney is absent or below
\* chimney_low; with every reading absent it is true.
C6_TurnOffExactly ==
    ret.op = "should_turn_off" =>
        /\ ret.off <=> TurnOffStated
        /\ AllAbsent => ret.off

\* every probe polled and none of them delivering a value
C6_Witness ==
    /\ ret.op = "should_turn_off"
    /\ DOMAIN last_temperatures = Sensors
    /\ AllAbsent
    /\ ret.off

\* the positions of the window whose samples lie within the detection horizon
InHorizon ==
    {i \in 1..Len(temperature_history) :
        now - temperature_history[i].t <= startup_detection_period}

Rose(a, b) == NotNone(a) /\ NotNone(b) /\ Val(b) >= Val(a) + startup_temp_increase

\* the statement of is_startup_period: two samples in the horizon, and from the
\* earliest to the latest of them both readings are present and rose enough
StartupStated ==
    /\ Cardinality(InHorizon) >= 2
    /\ \E e \in InHorizon, l \in InHorizon :
          /\ \A i \in InHorizon : e <= i /\ i <= l
          /\ Rose(temperature_history[e].boiler, temperature_history[l].boiler)
          /\ Rose(temperature_history[e].chimney, temperature_history[l].chimney)

\* two samples 90 s apart, the first (boiler 30, chimney 100), the second (b, 106)
TwoSamples(b) ==
    /\ Len(temperature_history) = 2
    /\ temperature_history[2].t - temperature_history[1].t = 90
    /\ now = temperature_history[2].t
    /\ temperature_history[1].boiler = Some(30)
    /\ temperature_history[1].chimney = Some(100)
    /\ temperature_history[2].boiler = Some(b)
    /\ temperature_history[2].chimney = Some(106)

\* C7: is_startup_period is true exactly when at least 2 samples of the window
\* lie within the detection horizon and both the boiler and the chimney
\* reading are present at the earliest and the latest of them and rose by at
\* least startup_temp_increase; (30, 100) then (36, 106) after 90 s gives true,
\* (30, 100) then (34, 106) gives false.
C7_StartupExactly ==
    ret.op = "is_startup_period" =>
        /\ ret.value <=> StartupStated
        /\ TwoSamples(36) => ret.value
        /\ TwoSamples(34) => ~ret.value

C7_Witness ==
    /\ ret.op = "is_startup_period"
    /\ TwoSamples(36)
    /\ ret.value

\* a direct read of the enabled sensor s has just returned
ReadOf(s) == ret.op = "read_temperature" /\ ret.sensor = s /\ enabled[s]

\* C8: for an enabled sensor, a failed read adds one to error_count and a good
\* read resets it, so error_count counts the consecutive failed reads;
\* is_available() turns false exactly in the read that is the 3rd failure in a
\* row, it is true right after every good read, and it always equals
\* enabled and error_count < 3.
C8_AvailabilityFollowsReads ==
    [][\A s \in Sensors :
          ReadOf(s)' =>
             /\ ret'.available = (enabled[s] /\ error_count'[s] < 3)
             /\ NotNone(ret'.value) => (error_count'[s] = 0 /\ ret'.available)
             /\ IsNone(ret'.value) => error_count'[s] = error_count[s] + 1
             /\ (error_count[s] < 3 /\ ~ret'.available)
                   <=> (IsNone(ret'.value) /\ error_count[s] = 2)]_vars

\* the thermocouple has just failed for the third time in a row
C8_Witness ==
    /\ ReadOf(Chimney)
    /\ IsNone(ret.value)
    /\ error_count[Chimney] = 3
    /\ ~ret.available

\* the device of sensor s yields a reading that read_temperature accepts
GoodRaw(s, raw) ==
    NotNone(raw) /\ (IsMax31855(s) => Val(raw) <= MaxChimneyReading)

\* C9: polled through read_all, a sensor that crossed the error threshold is
\* attempted again and is available again as soon as its device yields one
\* good reading.
C9_RecoversWhenPolled ==
    [][\A s \in Sensors :
          (/\ ret'.op = "read_all"
           /\ enabled[s]
           /\ error_count[s] >= max_errors
           /\ GoodRaw(s, ret'.raws[s]))
          => error_count'[s] < max_errors]_vars

\* C10: with allow_simulation false, every turn_on, turn_off and toggle in
\* which no request was answered returns False, and every such get_status
\* returns None: no state is fabricated.
C10_NoFabricatedState ==
    (~allow_simulation /\ ret.op \in Commands \cup {"get_status"} /\ ret.end # "reply")
        => /\ ret.op \in Commands => ret.result = FALSE
           /\ ret.op = "get_status" => ret.result = "None"

\* a status query that went unanswered although an earlier call had cached a state
C10_Witness ==
    /\ ~allow_simulation
    /\ ret.op = "get_status"
    /\ ret.end = "exhausted"
    /\ last_status # "None"
    /\ ret.result = "None"

\* a call of the outlet controller that can send a request
Calls == Commands \cup {"get_status"}

\* C11: with allow_simulation true, a command or status query that exhausted
\* its retry_attempts tries leaves the controller in simulated-offline mode,
\* and in that mode every get_status returns the state asked for by the last
\* command that returned success: never None, never another value.
C11_SimulatedStatusFollowsCommands ==
    /\ (allow_simulation /\ ret.op \in Calls /\ ret.end = "exhausted")
          => offline_mode
    /\ (allow_simulation /\ offline_mode /\ ret.op = "get_status")
          => /\ ret.result # "None"
             /\ call_history.commanded # "None"
                   => ret.result = call_history.commanded

\* C12: when the controller is offline (simulated or unavailable) although an
\* address is configured, and the device is reachable again, the next
\* connect, command or status query contacts the device and leaves the
\* controller in Live mode.
C12_ReachableDeviceRestoresLive ==
    [][(/\ offline_mode
        /\ ip_address
        /\ ret'.op \in Calls \cup {"connect"}
        /\ ret'.online)
       => (ret'.requests >= 1 /\ ~offline_mode')]_vars

\* C13: the controller leaves Live mode only in a call whose request failed
\* on all retry_attempts attempts; a call that ended early, on an HTTP error
\* status or an unexpected exception, does not change the mode.
C13_LeavesLiveOnlyWhenExhausted ==
    [][(~offline_mode /\ offline_mode')
          => (ret'.end # "reply" /\ ret'.requests = retry_attempts)]_vars

\* every attempt of the call fails with a timeout or a connection error
AllRetryable == \A i \in 1..ret.retry_attempts : ret.script[i] \in Retryable

\* C14: every _send_command in Live mode ends after at least 1 and at most
\* retry_attempts requests, and retry_attempts lies in [1,10] whatever value
\* is configured; when every attempt times out or fails to connect, exactly
\* retry_attempts requests are made, with a delay between consecutive
\* attempts and none after the last (retry_attempts - 1 delays).
C14_BoundedRetries ==
    ret.op = "_send_command" =>
        /\ ret.retry_attempts \in 1..10
        /\ ret.requests \in 1..ret.retry_attempts
        /\ ret.sleeps <= ret.requests - 1
        /\ AllRetryable =>
              /\ ret.requests = ret.retry_attempts
              /\ ret.sleeps = ret.retry_attempts - 1

\* a configured count above 10: ten attempts, nine delays
C14_Witness ==
    /\ ret.op = "_send_command"
    /\ ret.configured > 10
    /\ AllRetryable
    /\ ret.requests = 10
    /\ ret.sleeps = 9

\* C15: a timeout or connection error on attempt k < retry_attempts is
\* followed by attempt k+1; an HTTP error status on attempt k ends the call
\* with failure at once, with no further attempt.
C15_RetryOnlyTransientFailures ==
    ret.op = "_send_command" =>
        /\ \A k \in 1..(ret.retry_attempts - 1) :
              (ret.requests >= k /\ ret.script[k] \in Retryable)
                 => ret.requests >= k + 1
        /\ \A k \in 1..ret.retry_attempts :
              (ret.requests >= k /\ ret.script[k] = "http_error")
                 => (ret.requests = k /\ ret.end = "http_error")

\* a connection error, then an HTTP error status with attempts still left
C15_Witness ==
    /\ ret.op = "_send_command"
    /\ ret.retry_attempts = 3
    /\ ret.script[1] = "connection_error"
    /\ ret.script[2] = "http_error"
    /\ ret.requests = 2
    /\ ret.sleeps = 1
    /\ ret.end = "http_error"

\* C16: while the actuator is unavailable (offline, simulation not permitted)
\* the outlet state shown to collaborators is 'unavailable' / unknown:
\* outlet_status of get_system_state and of the status API is neither 'on'
\* nor 'off', and the status of get_info is None.
C16_UnavailableIsShownAsUnavailable ==
    (~allow_simulation /\ offline_mode) =>
        /\ ret.op \in {"get_system_state", "api_status"}
              => ret.outlet_status = "unavailable"
        /\ ret.op = "get_info" => ret.status = "None"

\* C17: a live status query whose reply has no ON/OFF power word returns the
\* state last confirmed by a reply of the device and changes no cached state;
\* it returns no value that the device did not confirm.
C17_AmbiguousStatusKeepsConfirmed ==
    [][(ret'.op = "get_status" /\ ret'.end = "reply" /\ ret'.word = "")
          => /\ ret'.result = call_history.confirmed
             /\ last_status' = last_status
             /\ last_update' = last_update
             /\ simulated_state' = simulated_state]_vars

\* C18: in Live mode a turn_on (turn_off) whose request got any reply returns
\* True and caches the requested state in last_status, also when the reply
\* does not contain the requested power word.
C18_AnyReplyIsSuccess ==
    /\ (ret.op = "turn_on" /\ ret.end = "reply")
          => (ret.result = TRUE /\ last_status = "True")
    /\ (ret.op = "turn_off" /\ ret.end = "reply")
          => (ret.result = TRUE /\ last_status = "False")

\* a turn_off answered without a power word, after a retry
C18_Witness ==
    /\ ret.op = "turn_off"
    /\ ret.end = "reply"
    /\ ret.requests = 2
    /\ ret.word = ""
    /\ ret.result = TRUE
    /\ last_status = "False"

\* C19: every turn_on, turn_off or toggle that returns True has set
\* last_update to the time of the call and the cached last_status to the
\* state the call produced, in Live and in simulated mode alike.
C19_SuccessUpdatesCache ==
    (ret.op \in Commands /\ ret.result = TRUE) =>
        /\ last_update = Some(now - 1)
        /\ last_status = Commanded(ret.op, ret.end, power, simulated_state)

\* C20: right after construction the controller is Live exactly if an address
\* is configured; without an address no call makes a network request,
\* get_status returns the simulated state and commands return True when
\* allow_simulation is true, get_status returns None and commands return
\* False when it is false.
C20_LiveIffAddressConfigured ==
    /\ ret.op = "init" => (~offline_mode <=> ip_address)
    /\ (~ip_address /\ ret.op \in Calls) =>
          /\ ret.requests = 0
          /\ ret.op = "get_status" =>
                ret.result = IF allow_simulation THEN PyBool(simulated_state)
                             ELSE "None"
          /\ ret.op \in Commands => ret.result = allow_simulation

\* the first call of a controller built without an address, simulation allowed
C20_Witness ==
    /\ ~ip_address
    /\ allow_simulation
    /\ ticks = 1
    /\ ret.op = "get_status"
    /\ ret.requests = 0
    /\ ret.result = "False"

\* C30: MAX31855Sensor.read_temperature never returns a value above 300: a raw
\* reading above 300 is returned as absent and counted as one sensor error, so
\* the read that is the 3rd such reading in a row makes the sensor unavailable.
C30_ChimneyReadingCapped ==
    [][ReadOf(Chimney)' =>
          /\ NotNone(ret'.value) => Val(ret'.value) <= 300
          /\ (enabled[Chimney] /\ NotNone(ret'.raw) /\ Val(ret'.raw) > 300) =>
                /\ IsNone(ret'.value)
                /\ error_count'[Chimney] = error_count[Chimney] + 1
                /\ error_count[Chimney] = 2 => ~ret'.available]_vars

\* the thermocouple has just delivered 310 for the third time in a row
C30_Witness ==
    /\ ReadOf(Chimney)
    /\ enabled[Chimney]
    /\ ret.raw = Some(310)
    /\ IsNone(ret.value)
    /\ error_count[Chimney] = 3
    /\ ~ret.available

\* the controller simulates: offline with allow_simulation set
SimulatedOffline == offline_mode /\ allow_simulation

\* the script of a network on which every request would be answered
AllOk == [i \in 1..retry_attempts |-> "ok"]

\* C28: in simulated-offline mode every turn_on, turn_off and toggle returns
\* True without contacting the device, the get_status that follows such a
\* command returns exactly the state that command set, and a second toggle
\* right after a toggle restores the state the first one found.
C28_SimulatedCommandsRoundTrip ==
    [][SimulatedOffline =>
          /\ ret'.op \in Commands =>
                /\ ret'.result = TRUE
                /\ ret'.requests = 0
                /\ power' = power
          /\ ret'.op = "turn_on" => simulated_state'
          /\ ret'.op = "turn_off" => ~simulated_state'
          /\ ret'.op = "toggle" =>
                /\ simulated_state' = ~simulated_state
                /\ toggle(SonoffState', allow_simulation', power', AllOk, FALSE,
                          now').sc.simulated_state = simulated_state
          /\ (ret.op \in Commands /\ ret.requests = 0 /\ ret'.op = "get_status") =>
                /\ ret'.requests = 0
                /\ ret'.result = call_history.commanded
                /\ ret'.result = PyBool(simulated_state)]_vars

\* the third call of a simulating controller is a get_status that returns the
\* on state its last simulated command set
C28_Witness ==
    /\ SimulatedOffline
    /\ ret.op = "get_status"
    /\ ret.requests = 0
    /\ ret.result = "True"
    /\ call_history.commanded = "True"
    /\ ticks = 3

\* C24: a status query (get_system_state) is read-only: it changes none of
\* offline_mode, is_connected, last_status, last_update and simulated_state of
\* the actuator, and so never moves the controller from Live to another mode.
C24_StatusQueryIsReadOnly ==
    [][ret'.op = "get_system_state" =>
          UNCHANGED <<offline_mode, is_connected, last_status, last_update,
                      simulated_state>>]_vars

\* C27: with no actuator configured, update_control still reads the sensors
\* and evaluates should_turn_on and should_turn_off, but it issues no command,
\* returns None and leaves current_outlet_state, last_outlet_reason and every
\* actuator field unchanged.
C27_NoOutletNoCommand ==
    [][Ticked' =>
          /\ ret'.result = "None"
          /\ ret'.command = "none"
          /\ UNCHANGED <<current_outlet_state, last_outlet_reason, sonoffVars,
                         call_history>>
          /\ last_temperatures' = read_all(enabled, error_count, ret'.raws).readings
          /\ error_count' = read_all(enabled, error_count, ret'.raws).error_count
          /\ Len(temperature_history') = Len(temperature_history) + 1
          /\ ret'.should_on = should_turn_on(last_temperatures', temperature_history',
                                             now).on
          /\ ret'.should_off = should_turn_off(last_temperatures').off]_vars

\* a tick without an outlet controller in which a critical boiler asked for
\* the pump, and the one after it in which the safe readings asked to stop it
C27_Witness ==
    /\ Ticked
    /\ ticks = 2
    /\ ~ret.should_on
    /\ ret.should_off
    /\ ret.result = "None"
    /\ current_outlet_state = "None"
    /\ last_outlet_reason = "None"
    /\ Len(temperature_history) = 2
    /\ temperature_history[1].boiler = Some(87)

\* the window with every sample older than startup_detection_period at time t
\* given the readings b and c instead of its own
Aged(hist, t, b, c) ==
    [i \in 1..Len(hist) |->
        IF t - hist[i].t > startup_detection_period
        THEN [t |-> hist[i].t, boiler |-> b, chimney |-> c]
        ELSE hist[i]]

\* C29: the trend window never holds more than 100 samples; appending to a
\* full window evicts the oldest sample; samples older than
\* startup_detection_period never influence is_startup_period, whatever their
\* readings, even while they are still in the window.
C29_WindowBoundedAndAged ==
    [][/\ Len(temperature_history') <= 100
       /\ ret'.op = "get_temperatures" =>
             /\ temperature_history'[Len(temperature_history')].t = now'
             /\ IF Len(temperature_history) = 100
                THEN /\ Len(temperature_history') = 100
                     /\ \A i \in 1..99 :
                           temperature_history'[i] = temperature_history[i + 1]
                ELSE /\ Len(temperature_history') = Len(temperature_history) + 1
                     /\ \A i \in 1..Len(temperature_history) :
                           temperature_history'[i] = temperature_history[i]
       /\ ret'.op = "is_startup_period" =>
             \A b \in {None, Some(0), Some(200)}, c \in {None, Some(0), Some(200)} :
                ret'.value = is_startup_period(Aged(temperature_history, now, b, c),
                                               now)]_vars

\* is_startup_period has answered no on a full window that has evicted its
\* oldest sample and whose samples within the horizon did not rise, while an
\* older sample still in the window is 6 degrees colder than the latest
C29_Witness ==
    /\ ret.op = "is_startup_period"
    /\ ~ret.value
    /\ Len(temperature_history) = 100
    /\ temperature_history[1].t > check_interval
    /\ now - temperature_history[99].t <= startup_detection_period
    /\ now - temperature_history[98].t > startup_detection_period
    /\ temperature_history[98].boiler = Some(30)
    /\ temperature_history[98].chimney = Some(100)
    /\ temperature_history[99].boiler = Some(36)
    /\ temperature_history[100].boiler = Some(36)
    /\ temperature_history[100].chimney = Some(106)

\* C23: no actuator implementation fabricates success while the device is
\* unreachable unless simulation is explicitly permitted: with the Tapo device
\* unreachable and no such permission, turn_on and turn_off do not return True
\* and get_status does not return True or False.
C23_TapoNeverFabricates ==
    (ret.op \in Calls /\ ret.unreachable /\ ~allow_simulation) =>
        /\ ret.op \in Commands => ret.result # TRUE
        /\ ret.op = "get_status" => ret.result = "None"

\* the tick of the control loop that has just ended sent a command that
\* returned success
CommandSucceeded == ret.command \in {"turn_on", "turn_off"} /\ ret.command_result

\* C21: the control loop persists an outlet event in a tick exactly if
\* update_control issued a command in that tick and the command returned
\* success: every successful turn_on or turn_off is recorded exactly once and
\* no event is recorded without one.
C21_EventIffCommandSucceeded ==
    [][ret'.op = "tick" =>
          /\ Len(outlet_events') \in {Len(outlet_events), Len(outlet_events) + 1}
          /\ (Len(outlet_events') = Len(outlet_events) + 1) <=> CommandSucceeded']_vars

\* C22: a failure inside one tick (an exception raised while the tick reads
\* the sensors, calls the actuator or writes storage) never ends the control
\* loop: after it the loop is still running and takes its next tick.
C22_TickFailureKeepsLoop ==
    [][(ret'.op = "tick" /\ ret'.raised # "None") => pc' = "loop"]_vars

C25_NoAttemptAfterShutdown ==
    [][(shutdown_event /\ sending.pc \in {"request", "sleep"}
           /\ sending.requests >= 1) =>
          sending'.requests = sending.requests]_vars

\* C40: under any sequence of SensorManager.read_all polls and any pattern of
\* read failures, every sensor's error_count stays within 0..3 (max_errors).
C40_ErrorCountBounded ==
    \A s \in Sensors : error_count[s] \in 0..3

\* the thermocouple reached 3 errors and was polled once more: its count is
\* still 3 and its entry None, although its device would have delivered 90
C40_Witness ==
    /\ ret.op = "read_all"
    /\ enabled[Chimney]
    /\ error_count[Chimney] = 3
    /\ ret.raws[Chimney] = Some(90)
    /\ IsNone(ret.readings[Chimney])

\* what the device of sensor o yields when it behaves as kind says
RawOfKind(o, kind) ==
    IF kind = "good" THEN (IF IsMax31855(o) THEN Some(90) ELSE Some(30))
    ELSE IF kind = "out_of_range" /\ IsMax31855(o) THEN Some(310)
    ELSE None

\* polls that agree with the poll of raws on error counts ec in sensor s,
\* while every other sensor has error count oc and a device behaving as kind
SameFor(s, ec, raws) ==
    {[ec   |-> [o \in Sensors |-> IF o = s THEN ec[s] ELSE oc],
      raws |-> [o \in Sensors |-> IF o = s THEN raws[s] ELSE RawOfKind(o, kind)]] :
        oc \in 0..max_errors, kind \in {"good", "absent", "out_of_range"}}

\* C31: read_all returns one entry for every registered sensor, and the entry
\* and the error count of a sensor depend only on that sensor's own state and
\* read outcome: a failing or unavailable sensor yields None for itself and
\* never prevents or alters the reading of any other sensor.
C31_SensorsIndependent ==
    [][ret'.op = "read_all" =>
          /\ DOMAIN ret'.readings = Registered(enabled)
          /\ \A s \in Registered(enabled) :
                /\ (~is_available(enabled[s], error_count[s])
                      \/ ~GoodRaw(s, ret'.raws[s])) => IsNone(ret'.readings[s])
                /\ (is_available(enabled[s], error_count[s])
                      /\ GoodRaw(s, ret'.raws[s])) =>
                         ret'.readings[s] = ret'.raws[s]
                /\ \A p \in SameFor(s, error_count, ret'.raws) :
                      /\ read_all(enabled, p.ec, p.raws).readings[s]
                            = ret'.readings[s]
                      /\ read_all(enabled, p.ec, p.raws).error_count[s]
                            = error_count'[s]]_vars

\* a poll in which the boiler probe failed, the thermocouple was out of range
\* and the accumulator probes were read all the same
C31_Witness ==
    /\ ret.op = "read_all"
    /\ enabled = [s \in Sensors |-> TRUE]
    /\ IsNone(ret.readings[Boiler])
    /\ error_count[Boiler] = 3
    /\ ret.raws[Chimney] = Some(310)
    /\ IsNone(ret.readings[Chimney])
    /\ ret.readings[AccumulatorBottom] = Some(30)
    /\ ret.readings[AccumulatorTop] = Some(30)
    /\ error_count[AccumulatorTop] = 0

\* the call that has just returned reported failure: False from a command,
\* None from get_status
Failed ==
    \/ ret.op \in Commands /\ ret.result = FALSE
    \/ ret.op = "get_status" /\ ret.result = "None"

\* C38: a turn_on, turn_off, toggle or get_status call of the Sonoff
\* controller that returns failure leaves last_status, simulated_state,
\* last_update and offline_mode unchanged; the only field it may change is
\* is_connected, which becomes false.
C38_FailureChangesOnlyConnected ==
    [][Failed' =>
          /\ UNCHANGED <<last_status, simulated_state, last_update, offline_mode,
                         ip_address, allow_simulation>>
          /\ is_connected' \in {is_connected, FALSE}]_vars

\* a turn_on was confirmed by the device, then a command found it silent on
\* all attempts and returned False: the controller is still Live with the
\* confirmed status cached, and no longer connected
C38_Witness ==
    /\ Failed
    /\ ret.op \in Commands
    /\ ret.requests = retry_attempts
    /\ ~is_connected
    /\ ~offline_mode
    /\ last_status = "True"
    /\ NotNone(last_update)
    /\ call_history.confirmed = "True"

\* C39: in every reachable state of the Sonoff controller, also while a
\* status query of the API thread is interleaved with a command of the
\* control thread, offline_mode implies not is_connected
C39_OfflineNeverConnected ==
    offline_mode => ~is_connected

\* C35: the four temperatures of one get_system_state result are the
\* entries of one and the same last_temperatures dictionary, also when
\* get_temperatures replaces the dictionary while the query is running
C35_OneSnapshot ==
    ret.op = "api_get_system_state" =>
       \E snapshot \in ret.read :
          /\ ret.boiler_temp = get_boiler_temp(snapshot)
          /\ ret.accumulator_bottom_temp = get_accumulator_temps(snapshot).bottom
          /\ ret.accumulator_top_temp = get_accumulator_temps(snapshot).top
          /\ ret.chimney_temp = get_chimney_temp(snapshot)

\* C37: while the chimney probe's raw temperature is at or above
\* chimney_critical - hysteresis (values above 300 included), no tick that
\* reads the probe through MAX31855Sensor and read_all issues turn_off
C37_HotChimneyNeverSwitchedOff ==
    Ticked => ret.command # "turn_off"

\* C33: each iteration of the control loop polls the sensors once and appends
\* exactly one sample to temperature_history, so that after n iterations the
\* window holds min(n, 100) samples
C33_OneSamplePerTick ==
    ret.op = "tick" =>
       Len(temperature_history) = IF ticks < HistoryMaxLen THEN ticks ELSE HistoryMaxLen

\* the status tick r fetched was answered, and its command, if any, was
\* carried out by the device, whose relay is now pw
Confirming(r, pw) ==
    /\ r.status \in {"True", "False"}
    /\ r.command # "none" => (r.command_result = TRUE /\ pw = (r.command = "turn_on"))

\* two ticks in a row with the same readings and the same startup verdict
\* (should_turn_on gives the reason startup exactly when the verdict is true),
\* on an actuator that answers with its relay state and confirms every command
SteadyPair ==
    /\ Ticked /\ Ticked'
    /\ last_temperatures' = last_temperatures
    /\ (ret'.reason_on = "startup") = (ret.reason_on = "startup")
    /\ Confirming(ret, power)
    /\ ret'.status = PyBool(power)
    /\ Confirming(ret', power')

\* C32: with a reachable actuator that confirms every command and readings
\* and startup verdict that stay the same from tick to tick, consecutive
\* ticks issue at most one command in total
C32_NoAlternation ==
    [][SteadyPair => ~(ret.command # "none" /\ ret'.command # "none")]_vars

Reported(word) == ret.op = "api_system" /\ ret.outlet_status = word

\* C34: in test mode, with the outlet off at the start, the system comes to
\* report outlet_status on in the startup and critical scenarios and off in
\* the normal and cooling scenarios
C34_ScenarioOutlet ==
    /\ test_scenario \in {"startup", "critical"} => <>Reported("on")
    /\ test_scenario \in {"normal", "cooling"} => <>Reported("off")

====
